---- MODULE Spec2Model ----
(***************************************************************************)
(* A model of the jrsonnet evaluation core: the memoizing thunk (LazyVal), *)
(* the interner pool, function-call argument binding and the Pending       *)
(* (future) contexts the evaluator creates.                                *)
(***************************************************************************)
EXTENDS Integers, Sequences, FiniteSets, TLC

(***************************************************************************)
(* Bounds of the model.                                                    *)
(***************************************************************************)
\* number of thunks of one `local` or of one array literal
NThunks == 3

Thunks == 0 .. (NThunks - 1)
\* the number literals a program may hold
Nums == {1, 2}

VARIABLES
    phase,      \* thunks: "init", "local" (bindings of a local) or "arr" (elements of an array literal)
    lazy,       \* thunks: LazyValInternals of every LazyVal
    fctxFilled, \* thunks: whether the Pending context captured by the bindings is filled
    stack,      \* thunks: the active LazyVal::evaluate calls, innermost last
    ret,        \* thunks: the Result the last finished call handed to its caller
    invoked,    \* thunks (history): how often each producer's get() ran
    returned,   \* thunks (history): every Result a LazyVal::evaluate call on the thunk returned
    hit,        \* thunks (history): whether a call found the thunk already Computed or Errored
    arrResult,  \* thunks (history): the Result of evaluating the array literal itself
    prog,       \* thunks (history): the expression of every binding or array element
    access,     \* thunks (history): the index of the running or last top-level access
    heap,       \* interner: the Inner allocations, by address: content and strong count
    pool,       \* interner: the addresses of the keys of POOL
    handles,    \* interner: the live IStr and IBytes values of the program
    lastOp,     \* interner (history): the last operation and what it met
    callPhase,  \* calls: "idle", or "done" after an argument binding
    callIn,     \* calls: the function kind, the parameters and the arguments of the call
    callOut,    \* calls: the Result of the binding, and the value of every parameter in it
    pend,         \* futures: every Pending<Context>: free, empty or filled
    frames,       \* futures: the constructs being evaluated, innermost last
    handedThunks, \* futures: the Pendings captured by thunks the program can force
    handedObjs,   \* futures: the Pendings captured by bindables of objects the program holds
    panicked,     \* futures (history): an unwrap met an empty Pending
    lastUse,      \* futures (history): the last force or bind and the Pending it unwrapped
    applyPc,      \* apply: the position of evaluate_apply
    applyCall,    \* apply: the callee, the tailstrict flag and the number of arguments
    traceStack,   \* apply: the frames State::push holds
    argBound,     \* apply: how many arguments the binding has handed to its handler
    argForced,    \* apply: the arguments whose expression was evaluated
    applyHist,    \* apply (history): frames pushed, and arguments forced during binding
    valPhase,     \* values: "idle", or "done" after an operation on values
    valIn,        \* values: the operation and its operands
    valOut,       \* values: its Result
    mval,          \* manifest: the value the program built
    assertionsRan, \* manifest: the objects whose assertions have run
    assertRuns,    \* manifest (history): how often each object's assertions were executed
    mop,           \* manifest: the last operation on the value
    mlog,          \* manifest (history): what the last operation did, in order
    mout,          \* manifest: the Result of the last operation
    mops           \* manifest: the operations done so far

thunkVars ==
    <<phase, lazy, fctxFilled, stack, ret, invoked, returned, hit, arrResult, prog, access>>

internVars == <<heap, pool, handles, lastOp>>

callVars == <<callPhase, callIn, callOut>>

pendVars == <<pend, frames, handedThunks, handedObjs, panicked, lastUse>>

applyVars == <<applyPc, applyCall, traceStack, argBound, argForced, applyHist>>

valVars == <<valPhase, valIn, valOut>>

manVars == <<mval, assertionsRan, assertRuns, mop, mlog, mout, mops>>

vars == <<thunkVars, internVars, callVars, pendVars, applyVars, valVars, manVars>>

(***************************************************************************)
(* Results and errors.                                                     *)
(***************************************************************************)
RecursiveLazyValueEvaluation == "RecursiveLazyValueEvaluation"
RuntimeError == "RuntimeError"

NoResult == [kind |-> "none", val |-> 0, err |-> ""]
Ok(v) == [kind |-> "ok", val |-> v, err |-> ""]
Err(e) == [kind |-> "err", val |-> 0, err |-> e]
\* Ok(None) of ArrValue::get: the index is past the end
OkNone == [kind |-> "okNone", val |-> 0, err |-> ""]

(***************************************************************************)
(* Expressions a thunk's producer evaluates: a number literal, an `error`  *)
(* statement, or an access to a sibling thunk through the captured context *)
(* (a variable of the same `local`, or an element of the same array).      *)
(***************************************************************************)
NoExpr == [op |-> "none", v |-> 0]
NumExpr(v) == [op |-> "Num", v |-> v]
ErrorStmt == [op |-> "ErrorStmt", v |-> 0]
VarExpr(t) == [op |-> "Var", v |-> t]
Exprs == {NumExpr(v) : v \in Nums} \cup {ErrorStmt} \cup {VarExpr(t) : t \in Thunks}

(***************************************************************************)
(* LazyValInternals: Computed(Val), Errored(LocError), Waiting(producer),  *)
(* Pending.                                                                *)
(***************************************************************************)
Absent == [tag |-> "Absent", val |-> 0, err |-> "", f |-> NoExpr]
Computed(v) == [tag |-> "Computed", val |-> v, err |-> "", f |-> NoExpr]
Errored(e) == [tag |-> "Errored", val |-> 0, err |-> e, f |-> NoExpr]
Waiting(f) == [tag |-> "Waiting", val |-> 0, err |-> "", f |-> f]
Pending == [tag |-> "Pending", val |-> 0, err |-> "", f |-> NoExpr]

\* LazyVal::new
LazyValNew(f) == Waiting(f)

Frame(t) == [t |-> t, pc |-> "match", f |-> NoExpr, res |-> NoResult]

\* what each component's steps leave alone
ThunkOthers == <<internVars, callVars, pendVars, applyVars, valVars, manVars>>
InternOthers == <<thunkVars, callVars, pendVars, applyVars, valVars, manVars>>
CallOthers == <<thunkVars, internVars, pendVars, applyVars, valVars, manVars>>

PendOthers == <<thunkVars, internVars, callVars, applyVars, valVars, manVars>>

ApplyOthers == <<thunkVars, internVars, callVars, pendVars, valVars, manVars>>

ValOthers == <<thunkVars, internVars, callVars, pendVars, applyVars, manVars>>

ManOthers == <<thunkVars, internVars, callVars, pendVars, applyVars, valVars>>

ThunkStart ==
    /\ phase = "init"
    /\ lazy = [t \in Thunks |-> Absent]
    /\ fctxFilled = FALSE
    /\ stack = <<>>
    /\ ret = NoResult
    /\ invoked = [t \in Thunks |-> 0]
    /\ returned = [t \in Thunks |-> {}]
    /\ hit = [t \in Thunks |-> FALSE]
    /\ arrResult = NoResult
    /\ prog = [t \in Thunks |-> NoExpr]
    /\ access = -1

\* LocalExpr: a Pending context, one thunk per binding capturing it, then the fill
EvaluateLocal ==
    /\ phase = "init"
    /\ \E bindings \in [Thunks -> Exprs] :
          /\ lazy' = [t \in Thunks |-> LazyValNew(bindings[t])]
          /\ prog' = bindings
    /\ phase' = "local"
    /\ fctxFilled' = TRUE
    /\ UNCHANGED <<stack, ret, invoked, returned, hit, arrResult, access>>
    /\ UNCHANGED ThunkOthers

\* a variant that evaluates number literals while the array is built
EagerArrayElements(items) ==
    [t \in Thunks |->
        IF items[t].op = "Num" THEN Computed(items[t].v) ELSE LazyValNew(items[t])]

\* Arr(items): the thunks pushed to `out`, one ArrayElement per item
ArrayElements(items) == [t \in Thunks |-> LazyValNew(items[t])]

\* Arr(items): the expression's own Result, Val::Arr(out.into())
ArrValueOf(items) == Ok(NThunks)

EvaluateArr ==
    /\ phase = "init"
    /\ \E items \in [Thunks -> Exprs] :
          /\ lazy' = ArrayElements(items)
          /\ arrResult' = ArrValueOf(items)
          /\ prog' = items
    /\ phase' = "arr"
    /\ UNCHANGED <<fctxFilled, stack, ret, invoked, returned, hit, access>>
    /\ UNCHANGED ThunkOthers

\* Var(name): ctx.binding(name).evaluate() from the body of the local
VarAccess(t) ==
    /\ phase = "local"
    /\ stack = <<>>
    /\ fctxFilled
    /\ stack' = <<Frame(t)>>
    /\ ret' = NoResult
    /\ access' = t
    /\ UNCHANGED <<phase, lazy, fctxFilled, invoked, returned, hit, arrResult, prog>>
    /\ UNCHANGED ThunkOthers

\* ArrValue::get on a Lazy array: vec.get(index) is Some below the length
ArrGetInRange(index) == index < NThunks

ArrGet(index) ==
    /\ phase = "arr"
    /\ stack = <<>>
    /\ access' = index
    /\ IF ArrGetInRange(index)
       THEN stack' = <<Frame(index)>> /\ ret' = NoResult
       ELSE stack' = stack /\ ret' = OkNone
    /\ UNCHANGED <<phase, lazy, fctxFilled, invoked, returned, hit, arrResult, prog>>
    /\ UNCHANGED ThunkOthers

Top == stack[Len(stack)]
Pop == SubSeq(stack, 1, Len(stack) - 1)
SetTop(fr) == [stack EXCEPT ![Len(stack)] = fr]

\* LazyVal::evaluate, the first match: the Result it returns at once, or NoResult to go on
EvaluateEntry(cell) ==
    CASE cell.tag = "Computed" -> Ok(cell.val)
      [] cell.tag = "Errored" -> Err(cell.err)
      [] cell.tag = "Pending" -> Err(RecursiveLazyValueEvaluation)
      [] OTHER -> NoResult

\* a variant that reads the producer and leaves the cell as it was
TakeProducerKeep(cell) == cell

\* LazyVal::evaluate: what mem::replace leaves in the cell while the producer runs
TakeProducer(cell) == Pending

\* a variant that returns the producer's error without storing it
AfterGetLeavePending(res, f) ==
    IF res.kind = "ok" THEN Computed(res.val) ELSE Pending

\* a variant that puts the producer back after an error, to run it again
AfterGetForgetError(res, f) ==
    IF res.kind = "ok" THEN Computed(res.val) ELSE Waiting(f)

\* LazyVal::evaluate: the cell after the producer returned
AfterGet(res, f) ==
    IF res.kind = "ok" THEN Computed(res.val) ELSE Errored(res.err)

EvaluateMatch ==
    /\ stack # <<>>
    /\ Top.pc = "match"
    /\ LET t == Top.t
           cell == lazy[t]
           r == EvaluateEntry(cell)
       IN IF r # NoResult
          THEN /\ stack' = Pop
               /\ ret' = r
               /\ returned' = [returned EXCEPT ![t] = @ \cup {r}]
               /\ hit' = [hit EXCEPT ![t] = @ \/ cell.tag \in {"Computed", "Errored"}]
               /\ UNCHANGED <<lazy, invoked>>
          ELSE /\ lazy' = [lazy EXCEPT ![t] = TakeProducer(cell)]
               /\ stack' = SetTop([Top EXCEPT !.pc = "get", !.f = cell.f])
               /\ invoked' = [invoked EXCEPT ![t] = @ + 1]
               /\ UNCHANGED <<ret, returned, hit>>
    /\ UNCHANGED <<phase, fctxFilled, arrResult, prog, access>>
    /\ UNCHANGED ThunkOthers

\* the producer's get(): evaluate(ctx, expr) up to its access to another thunk
ProducerGet ==
    /\ stack # <<>>
    /\ Top.pc = "get"
    /\ LET f == Top.f
       IN CASE f.op = "Num" -> stack' = SetTop([Top EXCEPT !.pc = "store", !.res = Ok(f.v)])
            [] f.op = "ErrorStmt" ->
                 stack' = SetTop([Top EXCEPT !.pc = "store", !.res = Err(RuntimeError)])
            [] f.op = "Var" -> stack' = Append(SetTop([Top EXCEPT !.pc = "wait"]), Frame(f.v))
    /\ UNCHANGED <<phase, lazy, fctxFilled, ret, invoked, returned, hit, arrResult, prog,
                   access>>
    /\ UNCHANGED ThunkOthers

\* the producer's get(): the accessed thunk returned; an error leaves through `?`
ProducerResume ==
    /\ stack # <<>>
    /\ Top.pc = "wait"
    /\ ret # NoResult
    /\ stack' = SetTop([Top EXCEPT !.pc = "store", !.res = ret])
    /\ ret' = NoResult
    /\ UNCHANGED <<phase, lazy, fctxFilled, invoked, returned, hit, arrResult, prog,
                   access>>
    /\ UNCHANGED ThunkOthers

\* LazyVal::evaluate: install Computed or Errored and return
EvaluateStore ==
    /\ stack # <<>>
    /\ Top.pc = "store"
    /\ lazy' = [lazy EXCEPT ![Top.t] = AfterGet(Top.res, Top.f)]
    /\ stack' = Pop
    /\ ret' = Top.res
    /\ returned' = [returned EXCEPT ![Top.t] = @ \cup {Top.res}]
    /\ UNCHANGED <<phase, fctxFilled, invoked, hit, arrResult, prog, access>>
    /\ UNCHANGED ThunkOthers

ThunkNext ==
    \/ EvaluateLocal
    \/ EvaluateArr
    \/ \E t \in Thunks : VarAccess(t)
    \/ \E index \in 0 .. NThunks : ArrGet(index)
    \/ EvaluateMatch
    \/ ProducerGet
    \/ ProducerResume
    \/ EvaluateStore


(***************************************************************************)
(* Properties of the thunk.                                                *)
(***************************************************************************)
\* the thunks an evaluation of t goes through, following accesses in program p
RECURSIVE Chain(_, _, _)
Chain(p, t, n) ==
    IF n = 0 \/ p[t].op # "Var" THEN {t} ELSE {t} \cup Chain(p, p[t].v, n - 1)
Reach(p, t) == IF t \in Thunks THEN Chain(p, t, NThunks) ELSE {}
\* the producer of t reaches t itself
OnCycle(p, t) == p[t].op = "Var" /\ t \in Reach(p, p[t].v)

\* C1: a thunk's producer is invoked at most once, and every evaluate call on the
\* thunk returns the one Result the thunk holds once it is Computed or Errored.
C1_ThunkMemoization ==
    \A t \in Thunks :
        /\ invoked[t] <= 1
        /\ Cardinality(returned[t]) <= 1
        /\ lazy[t].tag = "Computed" => returned[t] = {Ok(lazy[t].val)}
        /\ lazy[t].tag = "Errored" => returned[t] = {Err(lazy[t].err)}

\* a memoized error and a memoized value were both returned again, one producer run each
C1_Witness ==
    \E t, u \in Thunks :
        /\ stack = <<>>
        /\ hit[t] /\ lazy[t].tag = "Errored" /\ invoked[t] = 1
        /\ hit[u] /\ lazy[u].tag = "Computed" /\ invoked[u] = 1

\* the steps a LazyValInternals may take
ForwardStep(a, b) ==
    \/ a = b
    \/ a.tag = "Absent" /\ b.tag = "Waiting"
    \/ a.tag = "Waiting" /\ b.tag = "Pending"
    \/ a.tag = "Pending" /\ b.tag \in {"Computed", "Errored"}

\* C2: a thunk's state only moves Waiting -> Pending -> Computed or Errored, and a
\* Computed or Errored thunk keeps its state and its value or error.
C2_ThunkMonotone ==
    [][\A t \in Thunks : ForwardStep(lazy[t], lazy'[t])]_vars

\* the three states at once: a value, an error, and a producer on the call stack
C2_Witness ==
    \E t, u, w \in Thunks :
        /\ lazy[t].tag = "Computed"
        /\ lazy[u].tag = "Errored"
        /\ lazy[w].tag = "Pending"
        /\ hit[t]

\* C3: an evaluate call that finds its thunk Pending returns
\* RecursiveLazyValueEvaluation and leaves the cell alone, the call stack stays
\* bounded, and an access to a thunk whose producer reaches itself ends in that error.
C3_RecursiveEvaluation ==
    [][/\ (stack # <<>> /\ Top.pc = "match" /\ lazy[Top.t].tag = "Pending") =>
            /\ ret' = Err(RecursiveLazyValueEvaluation)
            /\ lazy' = lazy
            /\ stack' = Pop
       /\ Len(stack') <= NThunks + 1
       /\ (stack' = <<>> /\ access' \in Thunks /\ ret' # NoResult /\ OnCycle(prog', access')) =>
            /\ ret' = Err(RecursiveLazyValueEvaluation)
            /\ lazy'[access'] = Errored(RecursiveLazyValueEvaluation)
      ]_vars

\* `local x = x; x` ran to its end
C3_Witness ==
    /\ phase = "local"
    /\ stack = <<>>
    /\ access \in Thunks
    /\ prog[access] = VarExpr(access)
    /\ ret = Err(RecursiveLazyValueEvaluation)
    /\ invoked[access] = 1

\* C9: an array literal evaluates to an array whatever its items are and forces none
\* of them; an element's producer runs at most once and only during an access that
\* reaches it; an element that is a number is returned whatever became of the others.
C9_LazyArray ==
    [][phase' = "arr" =>
         /\ arrResult' = Ok(NThunks)
         /\ access' = -1 => \A t \in Thunks : lazy'[t] = Waiting(prog'[t]) /\ invoked'[t] = 0
         /\ \A t \in Thunks :
               /\ invoked'[t] <= 1
               /\ invoked'[t] > invoked[t] => t \in Reach(prog, access)
         /\ (stack' = <<>> /\ access' \in Thunks /\ prog'[access'].op = "Num") =>
               ret' = Ok(prog'[access'].v)
      ]_vars

\* an element failed, a later access to another one gave its value, a third is untouched
C9_Witness ==
    \E i, j, k \in Thunks :
        /\ phase = "arr"
        /\ stack = <<>>
        /\ lazy[i] = Errored(RuntimeError)
        /\ access = j /\ ret = Ok(prog[j].v) /\ prog[j].op = "Num" /\ lazy[j].tag = "Computed"
        /\ lazy[k].tag = "Waiting" /\ invoked[k] = 0
        /\ prog[k].op = "ErrorStmt"

(***************************************************************************)
(* The interner: POOL, Inner allocations, IStr and IBytes handles.         *)
(***************************************************************************)
\* the live handles a program holds at once
MaxHandles == 3

Slots == 1 .. MaxHandles
\* addresses an Inner allocation may get
Addrs == 1 .. MaxHandles
\* byte contents; "xFF" is not UTF-8
Contents == {"a", "b", "xFF"}

FreeCell == [live |-> FALSE, content |-> "", count |-> 0]
NoHandle == [kind |-> "none", addr |-> 0]
IStr(a) == [kind |-> "IStr", addr |-> a]
IBytes(a) == [kind |-> "IBytes", addr |-> a]

InternStart ==
    /\ heap = [a \in Addrs |-> FreeCell]
    /\ pool = {}
    /\ handles = [h \in Slots |-> NoHandle]
    /\ lastOp = [op |-> "none", content |-> "", last |-> FALSE, found |-> FALSE]

\* Inner::check_utf8
CheckUtf8(c) == c # "xFF"

\* Inner::new_bytes at address a: one strong reference
InnerNew(m, a, c) ==
    [m EXCEPT !.heap[a] = [live |-> TRUE, content |-> c, count |-> 1]]

\* Inner::clone
InnerClone(m, a) == [m EXCEPT !.heap[a].count = @ + 1]

\* drop of an Inner: the allocation is freed with its last strong reference
InnerDrop(m, a) ==
    IF m.heap[a].count <= 1
    THEN [m EXCEPT !.heap[a] = FreeCell]
    ELSE [m EXCEPT !.heap[a].count = @ - 1]

\* Inner::strong_count
StrongCount(m, a) == m.heap[a].count

\* a variant of the lookup that never finds the key
PoolLookupMiss(m, c) == {}

\* pool.raw_entry_mut().from_key(bytes): the keys of POOL with this content
PoolLookup(m, c) == {a \in m.pool : m.heap[a].content = c}

\* pool.remove(inner): the key equal to inner leaves POOL and is dropped
PoolRemove(m, a) ==
    LET ks == {k \in m.pool : m.heap[k].content = m.heap[a].content}
    IN IF ks = {}
       THEN m
       ELSE LET k == CHOOSE k \in ks : TRUE
            IN InnerDrop([m EXCEPT !.pool = @ \ {k}], k)

\* a variant that also unpools while one more handle is alive
UnpoolNeededEarly(count) == count <= 3

\* Drop for IStr and IBytes: "First reference - current object, second - POOL"
UnpoolNeeded(count) == count <= 2

\* Drop for IStr and IBytes, then the drop of the Inner field
HandleDrop(m, a) ==
    InnerDrop(IF UnpoolNeeded(StrongCount(m, a)) THEN PoolRemove(m, a) ELSE m, a)

\* intern_bytes: the entry's key cloned, after an insert at address a when Vacant
InternBytesAt(m, c, a) ==
    LET found == PoolLookup(m, c)
    IN IF found # {}
       THEN LET k == CHOOSE k \in found : TRUE
            IN [m |-> InnerClone(m, k), addr |-> k]
       ELSE [m |-> InnerClone([InnerNew(m, a, c) EXCEPT !.pool = @ \cup {a}], a), addr |-> a]

\* the addresses an insert may get: any free one; none is needed when Occupied
InsertAddrs(m, c) ==
    IF PoolLookup(m, c) # {} THEN {0} ELSE {a \in Addrs : ~m.heap[a].live}

Mem == [heap |-> heap, pool |-> pool]
\* the handles other than h that point to a
OtherHandles(h, a) == {g \in Slots \ {h} : handles[g].kind # "none" /\ handles[g].addr = a}

InternBytes ==
    /\ \E h \in Slots :
         /\ handles[h] = NoHandle
         /\ \E c \in Contents :
              \E a \in InsertAddrs(Mem, c) :
                 LET r == InternBytesAt(Mem, c, a)
                 IN /\ heap' = r.m.heap
                    /\ pool' = r.m.pool
                    /\ handles' = [handles EXCEPT ![h] = IBytes(r.addr)]
                    /\ lastOp' = [op |-> "intern", content |-> c, last |-> FALSE,
                                  found |-> PoolLookup(Mem, c) # {}]
    /\ UNCHANGED InternOthers

\* intern_str: intern_bytes, then cast_str_unchecked clones the Inner and drops the IBytes
InternStr ==
    /\ \E h \in Slots :
         /\ handles[h] = NoHandle
         /\ \E c \in {c \in Contents : CheckUtf8(c)} :
              \E a \in InsertAddrs(Mem, c) :
                 LET r == InternBytesAt(Mem, c, a)
                     m2 == HandleDrop(InnerClone(r.m, r.addr), r.addr)
                 IN /\ heap' = m2.heap
                    /\ pool' = m2.pool
                    /\ handles' = [handles EXCEPT ![h] = IStr(r.addr)]
                    /\ lastOp' = [op |-> "intern", content |-> c, last |-> FALSE,
                                  found |-> PoolLookup(Mem, c) # {}]
    /\ UNCHANGED InternOthers

\* derive(Clone) of IStr and IBytes
HandleClone ==
    /\ \E h, g \in Slots :
         /\ handles[h] # NoHandle
         /\ handles[g] = NoHandle
         /\ LET m2 == InnerClone(Mem, handles[h].addr)
            IN /\ heap' = m2.heap
               /\ pool' = m2.pool
               /\ handles' = [handles EXCEPT ![g] = handles[h]]
               /\ lastOp' = [op |-> "clone", content |-> heap[handles[h].addr].content,
                             last |-> FALSE, found |-> FALSE]
    /\ UNCHANGED InternOthers

\* IStr::cast_bytes: IBytes(self.0.clone()), then self is dropped
CastBytes ==
    /\ \E h \in Slots :
         /\ handles[h].kind = "IStr"
         /\ LET a == handles[h].addr
                m2 == HandleDrop(InnerClone(Mem, a), a)
            IN /\ heap' = m2.heap
               /\ pool' = m2.pool
               /\ handles' = [handles EXCEPT ![h] = IBytes(a)]
               /\ lastOp' = [op |-> "cast", content |-> heap[a].content,
                             last |-> OtherHandles(h, a) = {}, found |-> FALSE]
    /\ UNCHANGED InternOthers

\* IBytes::cast_str: Some(IStr(self.0.clone())) when UTF-8, else None; self is dropped
CastStr ==
    /\ \E h \in Slots :
         /\ handles[h].kind = "IBytes"
         /\ LET a == handles[h].addr
                ok == CheckUtf8(heap[a].content)
                m2 == HandleDrop(IF ok THEN InnerClone(Mem, a) ELSE Mem, a)
            IN /\ heap' = m2.heap
               /\ pool' = m2.pool
               /\ handles' = [handles EXCEPT ![h] = IF ok THEN IStr(a) ELSE NoHandle]
               /\ lastOp' = [op |-> IF ok THEN "cast" ELSE "castNone",
                             content |-> heap[a].content,
                             last |-> OtherHandles(h, a) = {}, found |-> FALSE]
    /\ UNCHANGED InternOthers

\* Drop for IStr, Drop for IBytes
Drop ==
    /\ \E h \in Slots :
         /\ handles[h] # NoHandle
         /\ LET a == handles[h].addr
                m2 == HandleDrop(Mem, a)
            IN /\ heap' = m2.heap
               /\ pool' = m2.pool
               /\ handles' = [handles EXCEPT ![h] = NoHandle]
               /\ lastOp' = [op |-> "drop", content |-> heap[a].content,
                             last |-> OtherHandles(h, a) = {}, found |-> FALSE]
    /\ UNCHANGED InternOthers

InternNext ==
    \/ InternBytes
    \/ InternStr
    \/ HandleClone
    \/ CastBytes
    \/ CastStr
    \/ Drop


(***************************************************************************)
(* Properties of the interner.                                             *)
(***************************************************************************)
Live(h) == handles[h] # NoHandle
ContentOf(h) == heap[handles[h].addr].content
\* IStr::eq, IBytes::eq: Inner::ptr_eq
PtrEq(h, g) == handles[h].addr = handles[g].addr
\* IStr::hash, IBytes::hash: the address, written as usize
HashOf(h) == handles[h].addr
PoolContents == {heap[a].content : a \in pool}
HandlesTo(a) == {h \in Slots : Live(h) /\ handles[h].addr = a}

\* C4: two live handles are equal, and hash equal, exactly when their contents are
\* equal; every live handle points to a live allocation, an IStr to UTF-8 content.
C4_InternerIdentity ==
    \A h, g \in Slots :
        (Live(h) /\ Live(g)) =>
            /\ heap[handles[h].addr].live
            /\ PtrEq(h, g) <=> ContentOf(h) = ContentOf(g)
            /\ HashOf(h) = HashOf(g) <=> ContentOf(h) = ContentOf(g)
            /\ handles[h].kind = "IStr" => CheckUtf8(ContentOf(h))

\* an intern met its content in POOL: two equal handles, and an unequal third
C4_Witness ==
    /\ lastOp.op = "intern"
    /\ lastOp.found
    /\ \E h, g, k \in Slots :
         /\ h # g
         /\ Live(h) /\ Live(g) /\ Live(k)
         /\ ContentOf(h) = lastOp.content /\ ContentOf(g) = lastOp.content
         /\ PtrEq(h, g)
         /\ ContentOf(k) # lastOp.content /\ ~PtrEq(h, k)

\* C5: POOL holds a content exactly while a handle for it is alive, once, with one
\* strong reference of its own; a drop removes the entry exactly when it is the last.
C5_PoolHoldsLiveContents ==
    /\ PoolContents = {ContentOf(h) : h \in {g \in Slots : Live(g)}}
    /\ \A a, b \in pool : heap[a].content = heap[b].content => a = b
    /\ \A a \in Addrs : heap[a].live <=> a \in pool
    /\ \A a \in pool : heap[a].count = 1 + Cardinality(HandlesTo(a))
    /\ lastOp.op \in {"drop", "castNone"} =>
         (lastOp.last <=> lastOp.content \notin PoolContents)

\* the last handle of one content was dropped while another content keeps an IStr
\* and an IBytes
C5_Witness ==
    /\ lastOp.op = "drop"
    /\ lastOp.last
    /\ lastOp.content \notin PoolContents
    /\ \E h, g \in Slots :
         /\ handles[h].kind = "IStr" /\ handles[g].kind = "IBytes"
         /\ PtrEq(h, g)
         /\ handles[h].addr \in pool

(***************************************************************************)
(* Function calls: parse_function_call and parse_builtin_call.             *)
(* A parameter is named by its position (parameter names are distinct); a  *)
(* destructuring parameter has no name. An argument name above the number  *)
(* of parameters, or the position of a destructuring parameter, is a name  *)
(* no parameter has.                                                       *)
(***************************************************************************)
\* parameters of a function
MaxParams == 2
\* named arguments of a call
MaxNamed == 2

TooManyArgsFunctionHas == "TooManyArgsFunctionHas"
UnknownFunctionParameter == "UnknownFunctionParameter"
BindingParameterASecondTime == "BindingParameterASecondTime"
FunctionParameterNotBoundInCall == "FunctionParameterNotBoundInCall"
VariableIsNotDefined == "VariableIsNotDefined"

\* a default `q + 1`, q a parameter
AddOneExpr(q) == [op |-> "AddOne", v |-> q]

NoMap == <<>>
ArgThunk(pos) == [src |-> "arg", at |-> pos]
DefaultThunk(i) == [src |-> "default", at |-> i]
NoThunk == [src |-> "none", at |-> 0]

BindErr(e, name) ==
    [kind |-> "err", err |-> e, name |-> name, passed |-> NoMap, defaults |-> NoMap,
     fctx |-> "none"]
\* the body context: body_ctx extended with passed_args, then with defaults
BindOk(passed, defaults, fctx) ==
    [kind |-> "ok", err |-> "", name |-> 0, passed |-> passed, defaults |-> defaults,
     fctx |-> fctx]
\* unreachable!()
BindPanic == BindErr("unreachable", 0)

NoCall == [fn |-> "none", params |-> <<>>,
           args |-> [unnamed |-> 0, named |-> <<>>, tailstrict |-> FALSE, fails |-> 0]]
NoOut == [res |-> BindErr("", 0), vals |-> NoMap]

CallStart ==
    /\ callPhase = "idle"
    /\ callIn = NoCall
    /\ callOut = NoOut

\* Destruct::name(): Some(name) of a plain parameter, None (0) of a pattern
ParamName(params, i) == IF params[i].named THEN i ELSE 0

\* destruct(): the variable the parameter binds; a pattern binds its own variable
DestructKey(params, i) == IF params[i].named THEN i ELSE 0 - i

\* ArgsLike::unnamed_iter, named_iter: tailstrict evaluates the argument before the
\* handler gets it, and the argument at position args.fails is one that fails
EagerFailure(args, pos) == args.tailstrict /\ args.fails = pos

\* args.unnamed_iter with the handler of parse_function_call
RECURSIVE UnnamedIter(_, _, _, _)
UnnamedIter(params, args, id, passed) ==
    IF id > args.unnamed
    THEN BindOk(passed, NoMap, "none")
    ELSE IF EagerFailure(args, id)
         THEN BindErr(RuntimeError, 0)
         ELSE UnnamedIter(params, args, id + 1,
                          (DestructKey(params, id) :> ArgThunk(id)) @@ passed)

\* params.iter().any(|p| p.0.name().as_ref() == Some(name))
ParamExists(params, name) ==
    \E i \in 1 .. Len(params) : ParamName(params, i) = name

\* a variant that lets a named argument replace what is bound
InsertIsSomeNever(passed, name) == FALSE

\* passed_args.insert(name, value).is_some()
InsertIsSome(passed, name) == name \in DOMAIN passed

\* args.named_iter with the handler of parse_function_call
RECURSIVE NamedIter(_, _, _, _)
NamedIter(params, args, k, passed) ==
    IF k > Len(args.named)
    THEN BindOk(passed, NoMap, "none")
    ELSE LET name == args.named[k]
             pos == args.unnamed + k
         IN IF EagerFailure(args, pos)
            THEN BindErr(RuntimeError, 0)
            ELSE IF ~ParamExists(params, name)
                 THEN BindErr(UnknownFunctionParameter, name)
                 ELSE IF InsertIsSome(passed, name)
                      THEN BindErr(BindingParameterASecondTime, name)
                      ELSE NamedIter(params, args, k + 1, (name :> ArgThunk(pos)) @@ passed)

\* a variant that takes the default of a parameter that was passed by name as well
DefaultSkippedNever(params, passed, idx, fp) ==
    IF params[idx].named THEN FALSE ELSE idx - 1 < fp

\* the defaults loop: a parameter that is already bound keeps its argument
DefaultSkipped(params, passed, idx, fp) ==
    IF params[idx].named THEN idx \in DOMAIN passed ELSE idx - 1 < fp

\* the defaults loop of parse_function_call, from parameter idx on
RECURSIVE DefaultsLoop(_, _, _, _)
DefaultsLoop(params, passed, idx, st) ==
    IF idx > Len(params)
    THEN st
    ELSE IF params[idx].default = NoExpr \/ DefaultSkipped(params, passed, idx, st.fp)
         THEN DefaultsLoop(params, passed, idx + 1, st)
         ELSE DefaultsLoop(params, passed, idx + 1,
                  [fn |-> IF params[idx].named THEN st.fn + 1 ELSE st.fn,
                   fp |-> IF params[idx].named THEN st.fp ELSE st.fp + 1,
                   defaults |-> (DestructKey(params, idx) :> DefaultThunk(idx)) @@ st.defaults])

\* a variant that skips one parameter more
SearchFromNext(args) == args.unnamed + 2

\* params.iter().skip(args.unnamed_len()): the first parameter looked at
SearchFrom(args) == args.unnamed + 1

\* "Some args still weren't filled": the first parameter after the positional ones
\* whose name no named argument has
UnboundSearch(params, args) ==
    LET notFound == {i \in SearchFrom(args) .. Len(params) :
                        \A k \in 1 .. Len(args.named) : args.named[k] # ParamName(params, i)}
    IN IF notFound = {}
       THEN BindPanic
       ELSE BindErr(FunctionParameterNotBoundInCall,
                    ParamName(params, CHOOSE i \in notFound : \A j \in notFound : i <= j))

parse_function_call(params, args) ==
    IF args.unnamed > Len(params)
    THEN BindErr(TooManyArgsFunctionHas, Len(params))
    ELSE LET u == UnnamedIter(params, args, 1, NoMap)
         IN IF u.kind # "ok"
            THEN u
            ELSE LET n == NamedIter(params, args, 1, u.passed)
                 IN IF n.kind # "ok"
                    THEN n
                    ELSE IF Len(args.named) + args.unnamed < Len(params)
                         THEN LET d == DefaultsLoop(params, n.passed, 1,
                                           [fn |-> Len(args.named), fp |-> args.unnamed,
                                            defaults |-> NoMap])
                              IN IF d.fn + d.fp # Len(params)
                                 THEN UnboundSearch(params, args)
                                 ELSE BindOk(n.passed, d.defaults, "filled")
                         ELSE BindOk(n.passed, NoMap, "none")

\* args.unnamed_iter with the handler of parse_builtin_call
RECURSIVE BuiltinUnnamedIter(_, _, _, _)
BuiltinUnnamedIter(params, args, id, passed) ==
    IF id > args.unnamed
    THEN BindOk(passed, NoMap, "none")
    ELSE IF EagerFailure(args, id)
         THEN BindErr(RuntimeError, 0)
         ELSE BuiltinUnnamedIter(params, args, id + 1, (id :> ArgThunk(id)) @@ passed)

\* args.named_iter with the handler of parse_builtin_call
RECURSIVE BuiltinNamedIter(_, _, _, _)
BuiltinNamedIter(params, args, k, passed) ==
    IF k > Len(args.named)
    THEN BindOk(passed, NoMap, "none")
    ELSE LET name == args.named[k]
             pos == args.unnamed + k
         IN IF EagerFailure(args, pos)
            THEN BindErr(RuntimeError, 0)
            ELSE IF ~ \E i \in 1 .. Len(params) : i = name
                 THEN BindErr(UnknownFunctionParameter, name)
                 ELSE IF InsertIsSome(passed, name)
                      THEN BindErr(BindingParameterASecondTime, name)
                      ELSE BuiltinNamedIter(params, args, k + 1,
                                            (name :> ArgThunk(pos)) @@ passed)

\* the parameters with has_default that are not passed
BuiltinDefaults(params, passed) ==
    {i \in 1 .. Len(params) : params[i].default # NoExpr /\ i \notin DOMAIN passed}

\* "Some args still wasn't filled" of parse_builtin_call: every parameter has a name
BuiltinUnboundSearch(params, args) ==
    LET notFound == {i \in SearchFrom(args) .. Len(params) :
                        \A k \in 1 .. Len(args.named) : args.named[k] # i}
    IN IF notFound = {}
       THEN BindPanic
       ELSE BindErr(FunctionParameterNotBoundInCall,
                    CHOOSE i \in notFound : \A j \in notFound : i <= j)

parse_builtin_call(params, args) ==
    IF args.unnamed > Len(params)
    THEN BindErr(TooManyArgsFunctionHas, Len(params))
    ELSE LET u == BuiltinUnnamedIter(params, args, 1, NoMap)
         IN IF u.kind # "ok"
            THEN u
            ELSE LET n == BuiltinNamedIter(params, args, 1, u.passed)
                     filled_args == args.unnamed + Len(args.named)
                 IN IF n.kind # "ok"
                    THEN n
                    ELSE IF /\ filled_args < Len(params)
                            /\ filled_args + Cardinality(BuiltinDefaults(params, n.passed))
                                 # Len(params)
                         THEN BuiltinUnboundSearch(params, args)
                         ELSE BindOk(n.passed, NoMap, "none")

\* Context::binding: the innermost layer that binds the variable
Binding(ctx, key) ==
    IF key \in DOMAIN ctx.defaults
    THEN ctx.defaults[key]
    ELSE IF key \in DOMAIN ctx.passed THEN ctx.passed[key] ELSE NoThunk

\* a variant that fills the Pending of the defaults before the defaults are added
FutureContextPassedOnly(res) == [passed |-> res.passed, defaults |-> NoMap]

\* into_future(fctx): the context every EvaluateNamedThunk of a default unwraps
FutureContext(res) == [passed |-> res.passed, defaults |-> res.defaults]

\* the context parse_function_call returns
BodyContext(res) == [passed |-> res.passed, defaults |-> res.defaults]

\* the value of the argument at a position, when its expression does not fail
ArgValue(pos) == 10 * pos

\* Thunk::evaluate of the thunk a variable is bound to; `pending` are the default
\* thunks being evaluated
RECURSIVE EvalBinding(_, _, _, _, _)
EvalBinding(call, res, ctx, key, pending) ==
    LET th == Binding(ctx, key)
    IN CASE th.src = "none" -> Err(VariableIsNotDefined)
         [] th.src = "arg" ->
              IF call.args.fails = th.at THEN Err(RuntimeError) ELSE Ok(ArgValue(th.at))
         [] th.src = "default" ->
              IF th.at \in pending
              THEN Err(RecursiveLazyValueEvaluation)
              ELSE LET e == call.params[th.at].default
                   IN IF e.op = "Num"
                      THEN Ok(e.v)
                      ELSE LET r == EvalBinding(call, res, FutureContext(res), e.v,
                                                pending \cup {th.at})
                           IN IF r.kind = "ok" THEN Ok(r.val + 1) ELSE r

\* the body reads every parameter
ParamValues(call, res) ==
    IF res.kind # "ok"
    THEN NoMap
    ELSE [i \in 1 .. Len(call.params) |->
             EvalBinding(call, res, BodyContext(res), DestructKey(call.params, i), {})]

NamedArgs(n) == UNION {[1 .. k -> 1 .. (n + 1)] : k \in 0 .. MaxNamed}
Args(unnamed, named, tailstrict, fails) ==
    [unnamed |-> unnamed, named |-> named, tailstrict |-> tailstrict, fails |-> fails]

\* a call of a function through parse_function_call
BindFunction ==
    /\ callPhase = "idle"
    /\ \E n \in 0 .. MaxParams :
         \E params \in [1 .. n -> [named : BOOLEAN, default : {NoExpr, NumExpr(1)}]] :
            \E unnamed \in 0 .. (n + 1), named \in NamedArgs(n), tailstrict \in BOOLEAN :
               \E fails \in 0 .. (unnamed + Len(named)) :
                  LET call == [fn |-> "function", params |-> params,
                               args |-> Args(unnamed, named, tailstrict, fails)]
                      res == parse_function_call(params, call.args)
                  IN /\ callIn' = call
                     /\ callOut' = [res |-> res, vals |-> ParamValues(call, res)]
    /\ callPhase' = "done"
    /\ UNCHANGED CallOthers

\* a call of a builtin through parse_builtin_call
BindBuiltin ==
    /\ callPhase = "idle"
    /\ \E n \in 0 .. MaxParams :
         \E params \in [1 .. n -> [named : {TRUE}, default : {NoExpr, NumExpr(1)}]] :
            \E unnamed \in 0 .. (n + 1), named \in NamedArgs(n), tailstrict \in BOOLEAN :
               \E fails \in 0 .. (unnamed + Len(named)) :
                  LET call == [fn |-> "builtin", params |-> params,
                               args |-> Args(unnamed, named, tailstrict, fails)]
                      res == parse_builtin_call(params, call.args)
                  IN /\ callIn' = call
                     /\ callOut' = [res |-> res, vals |-> NoMap]
    /\ callPhase' = "done"
    /\ UNCHANGED CallOthers

\* a lazy call of a function whose defaults refer to parameters
CallWithDefaults ==
    /\ callPhase = "idle"
    /\ \E n \in 1 .. MaxParams :
         \E params \in [1 .. n -> [named : {TRUE},
                                   default : {NoExpr, NumExpr(1)}
                                               \cup {AddOneExpr(q) : q \in 1 .. n}]] :
            \E unnamed \in 0 .. n, named \in NamedArgs(n) :
               LET call == [fn |-> "defaults", params |-> params,
                            args |-> Args(unnamed, named, FALSE, 0)]
                   res == parse_function_call(params, call.args)
               IN /\ callIn' = call
                  /\ callOut' = [res |-> res, vals |-> ParamValues(call, res)]
    /\ callPhase' = "done"
    /\ UNCHANGED CallOthers

\* a value bound outside the call
ValThunk(v) == [src |-> "val", at |-> v]

\* the variables of the caller's context: one named like the first parameter, a
\* local of the caller, and one that the function's context binds too
CallerContext == (1 :> ValThunk(101)) @@ (11 :> ValThunk(110)) @@ (13 :> ValThunk(131))

\* the variables of the context the function captured: one named like the second
\* parameter, a local of the definition site, and the one the caller binds too
CapturedContext == (2 :> ValThunk(202)) @@ (12 :> ValThunk(120)) @@ (13 :> ValThunk(132))

\* Context::extend: the new bindings shadow the old ones
ExtendContext(ctx, new) ==
    [k \in DOMAIN ctx \cup DOMAIN new |-> IF k \in DOMAIN new THEN new[k] ELSE ctx[k]]

\* a variant that hands body_ctx to the argument iterators
ArgContextCaptured(call) == CapturedContext

\* the ctx parse_function_call hands to unnamed_iter and named_iter
ArgContext(call) == CallerContext

\* body_ctx.extend(passed_args).extend(defaults): what the body and, through fctx,
\* the defaults are evaluated in
CallBodyContext(res) ==
    ExtendContext(ExtendContext(CapturedContext, res.passed), res.defaults)

\* evaluate of Expr::Var in a context, forcing the thunk the variable is bound to
RECURSIVE EvalVar(_, _, _, _, _)
EvalVar(call, res, ctx, v, pending) ==
    IF v \notin DOMAIN ctx
    THEN Err(VariableIsNotDefined)
    ELSE LET th == ctx[v]
         IN CASE th.src = "val" -> Ok(th.at)
              [] th.src = "arg" ->
                   EvalVar(call, res, ArgContext(call), call.argExprs[th.at], pending)
              [] th.src = "default" ->
                   IF th.at \in pending
                   THEN Err(RecursiveLazyValueEvaluation)
                   ELSE EvalVar(call, res, CallBodyContext(res),
                                call.params[th.at].default.v, pending \cup {th.at})

\* the first argument whose expression fails in the context it is evaluated in
FirstFailing(call, argExprs) ==
    LET bad == {pos \in 1 .. Len(argExprs) : argExprs[pos] \notin DOMAIN ArgContext(call)}
    IN IF bad = {} THEN 0 ELSE CHOOSE pos \in bad : \A q \in bad : pos <= q

\* the names an argument, a default or the body of the call refers to
OuterNames == {1, 11, 12, 13}

\* FuncVal::evaluate of a Normal function: call_body_context, then the body, which
\* reads one variable
CallAcrossContexts ==
    /\ callPhase = "idle"
    /\ \E n \in 1 .. MaxParams :
         \E params \in [1 .. n -> [named : {TRUE},
                                   default : {NoExpr} \cup {VarExpr(v) : v \in {1, 11, 13}}]] :
            \E unnamed \in 0 .. n, named \in {<<>>} \cup {<<k>> : k \in 1 .. n},
               tailstrict \in BOOLEAN, body \in OuterNames :
               \E argExprs \in [1 .. (unnamed + Len(named)) -> OuterNames] :
                  /\ unnamed + Len(named) <= n
                  /\ LET proto == [fn |-> "contexts", params |-> params, argExprs |-> argExprs,
                                   body |-> body]
                         call == [fn |-> "contexts", params |-> params, argExprs |-> argExprs,
                                  body |-> body,
                                  args |-> Args(unnamed, named, tailstrict,
                                                FirstFailing(proto, argExprs))]
                         res == parse_function_call(params, call.args)
                     IN /\ callIn' = call
                        /\ callOut' =
                             [res |-> res,
                              vals |-> IF res.kind # "ok"
                                       THEN NoMap
                                       ELSE [i \in 1 .. n |->
                                               EvalVar(call, res, CallBodyContext(res), i, {})],
                              body |-> IF res.kind # "ok"
                                       THEN NoResult
                                       ELSE EvalVar(call, res, CallBodyContext(res), body, {})]
    /\ callPhase' = "done"
    /\ UNCHANGED CallOthers

\* the call is over
CallReturn ==
    /\ callPhase = "done"
    /\ callPhase' = "idle"
    /\ callIn' = NoCall
    /\ callOut' = NoOut
    /\ UNCHANGED CallOthers

CallNext ==
    \/ BindFunction
    \/ BindBuiltin
    \/ CallWithDefaults
    \/ CallAcrossContexts
    \/ CallReturn

(***************************************************************************)
(* Properties of argument binding.                                         *)
(***************************************************************************)
CallDone == callPhase = "done"

\* the parameter is bound by a positional or by a named argument of the call
BoundByArgument(call, i) ==
    \/ i <= call.args.unnamed
    \/ \E k \in 1 .. Len(call.args.named) : call.args.named[k] = i

\* named argument k names a parameter
NameKnown(call, k) ==
    /\ call.args.named[k] \in 1 .. Len(call.params)
    /\ call.params[call.args.named[k]].named

\* the parameter of named argument k is bound by a positional argument or by an
\* earlier named one
NameTaken(call, k) ==
    \/ call.args.named[k] <= call.args.unnamed
    \/ \E j \in 1 .. (k - 1) : call.args.named[j] = call.args.named[k]

NamedValid(call) ==
    \A k \in 1 .. Len(call.args.named) : NameKnown(call, k) /\ ~NameTaken(call, k)

\* the parameters no argument binds and no default fills
Unfilled(call) ==
    {i \in 1 .. Len(call.params) :
        ~BoundByArgument(call, i) /\ call.params[i].default = NoExpr}

\* the verdict the unbound-parameter check owes the call
BindingVerdict(call, res) ==
    IF Unfilled(call) # {}
    THEN res.kind = "err" /\ res.err = FunctionParameterNotBoundInCall
    ELSE /\ res.kind = "ok"
         /\ \A i \in 1 .. Len(call.params) :
              BoundByArgument(call, i) => DestructKey(call.params, i) \in DOMAIN res.passed
         /\ call.fn # "builtin" =>
              \A i \in 1 .. Len(call.params) :
                 DestructKey(call.params, i) \in DOMAIN res.passed \cup DOMAIN res.defaults

FirstBadName(call) ==
    CHOOSE k \in 1 .. Len(call.args.named) :
       /\ ~NameKnown(call, k) \/ NameTaken(call, k)
       /\ \A j \in 1 .. (k - 1) : NameKnown(call, j) /\ ~NameTaken(call, j)

\* the handler of the named arguments is run for named argument k
HandlerReached(call, k) ==
    /\ call.args.unnamed <= Len(call.params)
    /\ ~(call.args.tailstrict /\ call.args.fails \in 1 .. (call.args.unnamed + k))

\* C8: when the binding handles a named argument whose name matches no parameter it
\* fails with UnknownFunctionParameter; when the parameter of that name is already
\* bound by a positional or an earlier named argument it fails with
\* BindingParameterASecondTime; a binding that succeeds has every positional and
\* every named argument bound to its own parameter, none replaced
C8_NamedArguments ==
    CallDone =>
       /\ (/\ ~NamedValid(callIn)
           /\ HandlerReached(callIn, FirstBadName(callIn)))
             => LET k == FirstBadName(callIn)
                IN /\ callOut.res.kind = "err"
                   /\ callOut.res.name = callIn.args.named[k]
                   /\ callOut.res.err = IF NameKnown(callIn, k)
                                        THEN BindingParameterASecondTime
                                        ELSE UnknownFunctionParameter
       /\ callOut.res.kind = "ok" =>
             /\ NamedValid(callIn)
             /\ \A id \in 1 .. callIn.args.unnamed :
                   callOut.res.passed[DestructKey(callIn.params, id)] = ArgThunk(id)
             /\ \A k \in 1 .. Len(callIn.args.named) :
                   callOut.res.passed[callIn.args.named[k]]
                      = ArgThunk(callIn.args.unnamed + k)

\* f(a, b) called as f(1, b = 2, a = 3): the second named argument names the
\* parameter the positional argument has bound
C8_Witness ==
    /\ CallDone
    /\ Len(callIn.params) = 2
    /\ callIn.args.unnamed = 1
    /\ callIn.args.named = <<2, 1>>
    /\ HandlerReached(callIn, 2)
    /\ callOut.res.err = BindingParameterASecondTime
    /\ callOut.res.name = 1

\* what a parameter denotes in a call: its argument, or its default read with every
\* parameter of the call in scope
RECURSIVE Denotation(_, _, _)
Denotation(call, i, seen) ==
    IF i \notin 1 .. Len(call.params)
    THEN Err(VariableIsNotDefined)
    ELSE IF i <= call.args.unnamed
    THEN Ok(ArgValue(i))
    ELSE IF \E k \in 1 .. Len(call.args.named) : call.args.named[k] = i
    THEN Ok(ArgValue(call.args.unnamed
                       + CHOOSE k \in 1 .. Len(call.args.named) : call.args.named[k] = i))
    ELSE LET e == call.params[i].default
         IN IF e.op = "Num"
            THEN Ok(e.v)
            ELSE IF e.v \in seen \cup {i}
                 THEN Err(RecursiveLazyValueEvaluation)
                 ELSE LET r == Denotation(call, e.v, seen \cup {i})
                      IN IF r.kind = "ok" THEN Ok(r.val + 1) ELSE r

\* `local f(a, b=a+1) = a + b; f(10)`
S5Call ==
    [fn |-> "defaults",
     params |-> <<[named |-> TRUE, default |-> NoExpr],
                  [named |-> TRUE, default |-> AddOneExpr(1)]>>,
     args |-> Args(1, <<>>, FALSE, 0)]

\* C10: in a call that leaves parameters to their defaults, every parameter the
\* body reads has the value of its argument or of its default evaluated with all
\* passed arguments and all other defaults in scope, whether the default refers to
\* an earlier or a later parameter; f(a, b = a + 1) called as f(10) gives a + b = 21
C10_SharedDefaultsContext ==
    (CallDone /\ callIn.fn = "defaults" /\ callOut.res.kind = "ok") =>
       /\ \A i \in 1 .. Len(callIn.params) :
             callOut.vals[i] = Denotation(callIn, i, {})
       /\ callOut.res.defaults # NoMap => callOut.res.fctx = "filled"
       /\ callIn = S5Call => callOut.vals[1].val + callOut.vals[2].val = 21

\* f(a = b + 1, b = 1) called as f(): the default of a reads the default of the later
\* parameter b
C10_Witness ==
    /\ CallDone
    /\ callIn.fn = "defaults"
    /\ Len(callIn.params) = 2
    /\ callIn.params[1].default = AddOneExpr(2)
    /\ callIn.params[2].default = NumExpr(1)
    /\ callIn.args.unnamed = 0
    /\ callIn.args.named = <<>>
    /\ callOut.res.kind = "ok"
    /\ callOut.vals[1] = Ok(2)
    /\ callOut.vals[2] = Ok(1)

\* the call of scenario S5 has returned 10 + 11
C10_S5Reached ==
    /\ CallDone
    /\ callIn = S5Call
    /\ callOut.vals = <<Ok(10), Ok(11)>>

\* what an expression that names v gets in the caller's scope
SeenByCaller(v) ==
    CASE v = 1 -> Ok(101)
      [] v = 11 -> Ok(110)
      [] v = 13 -> Ok(131)
      [] OTHER -> Err(VariableIsNotDefined)

\* what an expression that names v gets in the function's own scope when v is not a
\* parameter of the function
SeenByFunction(v) ==
    CASE v = 2 -> Ok(202)
      [] v = 12 -> Ok(120)
      [] v = 13 -> Ok(132)
      [] OTHER -> Err(VariableIsNotDefined)

\* the position of the argument that binds parameter i
ArgumentOf(call, i) ==
    IF i <= call.args.unnamed
    THEN i
    ELSE call.args.unnamed
           + CHOOSE k \in 1 .. Len(call.args.named) : call.args.named[k] = i

\* C11: in every call, a parameter bound by an argument has the value the argument
\* expression has in the caller's context alone (the callee's captured bindings and
\* parameters are undefined there); a default and the body that name a variable
\* outside the parameters get it from the function's captured context alone (a
\* local of the caller is undefined there), and a name that is a parameter gets the
\* bound parameter; a tailstrict call fails exactly when an argument fails in the
\* caller's context
C11_TwoContexts ==
    (CallDone /\ callIn.fn = "contexts") =>
       /\ callOut.res.kind = "ok" =>
            /\ \A i \in 1 .. Len(callIn.params) :
                  IF BoundByArgument(callIn, i)
                  THEN callOut.vals[i] = SeenByCaller(callIn.argExprs[ArgumentOf(callIn, i)])
                  ELSE LET v == callIn.params[i].default.v
                       IN IF v \in 1 .. Len(callIn.params)
                          THEN v # i => callOut.vals[i] = callOut.vals[v]
                          ELSE callOut.vals[i] = SeenByFunction(v)
            /\ callOut.body = IF callIn.body \in 1 .. Len(callIn.params)
                              THEN callOut.vals[callIn.body]
                              ELSE SeenByFunction(callIn.body)
       /\ (callIn.args.tailstrict /\ NamedValid(callIn)
           /\ callIn.args.unnamed + Len(callIn.args.named) <= Len(callIn.params))
             => ((callOut.res.kind = "err" /\ callOut.res.err = RuntimeError)
                   <=> \E pos \in 1 .. Len(callIn.argExprs) :
                          SeenByCaller(callIn.argExprs[pos]).kind = "err")

\* f(a, b = z) defined where z is 132, called as f(z) where z is 131, with a body
\* that reads the caller's local 11: a is the caller's z, b the function's z, and
\* the body finds no variable
C11_Witness ==
    /\ CallDone
    /\ callIn.fn = "contexts"
    /\ Len(callIn.params) = 2
    /\ callIn.args.unnamed = 1
    /\ callIn.args.named = <<>>
    /\ callIn.argExprs = <<13>>
    /\ callIn.params[2].default = VarExpr(13)
    /\ callIn.body = 11
    /\ callOut.res.kind = "ok"
    /\ callOut.vals = <<Ok(131), Ok(132)>>
    /\ callOut.body = Err(VariableIsNotDefined)

(***************************************************************************)
(* Pending contexts: the five constructs that create one, step by step in  *)
(* the order of the code. A thunk or bindable is known by the Pending it   *)
(* captured. An error at any `?` ends the evaluation.                      *)
(***************************************************************************)
\* Pendings alive at a time
MaxPendings == 3
\* constructs nested in one another
MaxDepth == 1
\* bindings, members, iterations or defaults of one construct
MaxMembers == 2

PIds == 1 .. MaxPendings

FreePending == [state |-> "free", kind |-> "none", fills |-> 0]
\* Context::new_future()
NewFuture(kind) == [state |-> "empty", kind |-> kind, fills |-> 0]
\* Pending::fill
FillPending(c) == [c EXCEPT !.state = "filled", !.fills = IF @ < 2 THEN @ + 1 ELSE @]
\* Pending::unwrap finds a context
Unwrappable(c) == c.state = "filled"

PFrame(kind, self, own) == [kind |-> kind, self |-> self, own |-> own, caps |-> {}, n |-> 0]
NoUse == [op |-> "none", p |-> 0]

PendStart ==
    /\ pend = [p \in PIds |-> FreePending]
    /\ frames = <<>>
    /\ handedThunks = {}
    /\ handedObjs = {}
    /\ panicked = FALSE
    /\ lastUse = NoUse

PTop == frames[Len(frames)]

PPop == SubSeq(frames, 1, Len(frames) - 1)

PSetTop(fr) == [frames EXCEPT ![Len(frames)] = fr]
Range(q) == {q[i] : i \in 1 .. Len(q)}

\* the evaluator is evaluating an expression: at the top level, or a field name or
\* comprehension key inside an object under construction
EvaluationPoint == IF frames = <<>> THEN TRUE ELSE PTop.kind \in {"object", "objcomp"}

CanEnter == EvaluationPoint /\ Len(frames) < MaxDepth

HasFree == \E p \in PIds : pend[p].state = "free"
Fresh == CHOOSE p \in PIds : pend[p].state = "free" /\ \A q \in 1 .. (p - 1) : pend[q].state # "free"

\* into_future(fctx) for every fctx of a set
IntoFuture(pd, S) == [p \in PIds |-> IF p \in S THEN FillPending(pd[p]) ELSE pd[p]]

\* LocalExpr: let fctx = Context::new_future()
LocalNewFuture ==
    /\ CanEnter /\ HasFree
    /\ pend' = [pend EXCEPT ![Fresh] = NewFuture("local")]
    /\ frames' = Append(frames, PFrame("local", 0, <<Fresh>>))
    /\ UNCHANGED <<handedThunks, handedObjs, panicked, lastUse>>
    /\ UNCHANGED PendOthers

\* LocalExpr: evaluate_dest(b, fctx.clone(), &mut new_bindings)
LocalEvaluateDest ==
    /\ frames # <<>> /\ PTop.kind = "local" /\ PTop.n < MaxMembers
    /\ frames' = PSetTop([PTop EXCEPT !.caps = @ \cup Range(PTop.own), !.n = @ + 1])
    /\ UNCHANGED <<pend, handedThunks, handedObjs, panicked, lastUse>>
    /\ UNCHANGED PendOthers

\* LocalExpr: ctx.extend(new_bindings).into_future(fctx), then the body is evaluated
LocalIntoFuture ==
    /\ frames # <<>> /\ PTop.kind = "local"
    /\ pend' = IntoFuture(pend, Range(PTop.own))
    /\ handedThunks' = handedThunks \cup PTop.caps
    /\ frames' = PPop
    /\ UNCHANGED <<handedObjs, panicked, lastUse>>
    /\ UNCHANGED PendOthers

\* evaluate_member_list_object: fctx, and uctx over it
ObjNewFuture ==
    /\ CanEnter /\ HasFree
    /\ pend' = [pend EXCEPT ![Fresh] = NewFuture("object")]
    /\ frames' = Append(frames, PFrame("object", 0, <<Fresh>>))
    /\ UNCHANGED <<handedThunks, handedObjs, panicked, lastUse>>
    /\ UNCHANGED PendOthers

\* evaluate_member_list_object: a field, method or assert is given to the builder
\* with a clone of uctx
ObjMember ==
    /\ frames # <<>> /\ PTop.kind = "object" /\ PTop.n < MaxMembers
    /\ frames' = PSetTop([PTop EXCEPT !.caps = @ \cup Range(PTop.own), !.n = @ + 1])
    /\ UNCHANGED <<pend, handedThunks, handedObjs, panicked, lastUse>>
    /\ UNCHANGED PendOthers

\* evaluate_member_list_object: builder.build(), into_future(fctx), Ok(this)
ObjBuildFill ==
    /\ frames # <<>> /\ PTop.kind = "object"
    /\ pend' = IntoFuture(pend, Range(PTop.own))
    /\ handedObjs' = handedObjs \cup PTop.caps
    /\ frames' = PPop
    /\ UNCHANGED <<handedThunks, panicked, lastUse>>
    /\ UNCHANGED PendOthers

\* evaluate_object, ObjComp: the builder and the empty ctxs
CompStart ==
    /\ CanEnter
    /\ frames' = Append(frames, PFrame("objcomp", 0, <<>>))
    /\ UNCHANGED <<pend, handedThunks, handedObjs, panicked, lastUse>>
    /\ UNCHANGED PendOthers

\* evaluate_object, ObjComp: one call of the callback: the key, a new fctx pushed to
\* ctxs, and a member with uctx over it unless the key is null
CompIteration ==
    /\ frames # <<>> /\ PTop.kind = "objcomp" /\ PTop.n < MaxMembers
    /\ HasFree
    /\ pend' = [pend EXCEPT ![Fresh] = NewFuture("objcomp")]
    /\ \E keyIsStr \in BOOLEAN :
          frames' = PSetTop([PTop EXCEPT !.own = Append(@, Fresh),
                                         !.caps = IF keyIsStr THEN @ \cup {Fresh} ELSE @,
                                         !.n = @ + 1])
    /\ UNCHANGED <<handedThunks, handedObjs, panicked, lastUse>>
    /\ UNCHANGED PendOthers

\* a variant that fills the fctx of the last iteration only
CompFillLast(own) == IF own = <<>> THEN {} ELSE {own[Len(own)]}

\* for (ctx, fctx) in ctxs: the fctx the loop fills
CompFillTargets(own) == Range(own)

\* evaluate_object, ObjComp: builder.build(), the loop over ctxs, this
CompBuildFill ==
    /\ frames # <<>> /\ PTop.kind = "objcomp"
    /\ pend' = IntoFuture(pend, CompFillTargets(PTop.own))
    /\ handedObjs' = handedObjs \cup PTop.caps
    /\ frames' = PPop
    /\ UNCHANGED <<handedThunks, panicked, lastUse>>
    /\ UNCHANGED PendOthers

\* UnboundLocals::bind of an object the program holds: let fctx = Context::new_future()
BindNewFuture ==
    /\ CanEnter /\ HasFree
    /\ \E o \in handedObjs :
          frames' = Append(frames, PFrame("bind", o, <<Fresh>>))
    /\ pend' = [pend EXCEPT ![Fresh] = NewFuture("bind")]
    /\ UNCHANGED <<handedThunks, handedObjs, panicked, lastUse>>
    /\ UNCHANGED PendOthers

\* UnboundLocals::bind: evaluate_dest(b, fctx.clone(), &mut new_bindings)
BindEvaluateDest ==
    /\ frames # <<>> /\ PTop.kind = "bind" /\ PTop.n < MaxMembers
    /\ frames' = PSetTop([PTop EXCEPT !.caps = @ \cup Range(PTop.own), !.n = @ + 1])
    /\ UNCHANGED <<pend, handedThunks, handedObjs, panicked, lastUse>>
    /\ UNCHANGED PendOthers

\* UnboundLocals::bind: self.fctx.unwrap(), extend, into_future(fctx); the field is
\* then evaluated in the context
BindUnwrapIntoFuture ==
    /\ frames # <<>> /\ PTop.kind = "bind"
    /\ panicked' = (panicked \/ ~Unwrappable(pend[PTop.self]))
    /\ lastUse' = [op |-> "bind", p |-> PTop.self]
    /\ pend' = IntoFuture(pend, Range(PTop.own))
    /\ handedThunks' = handedThunks \cup PTop.caps
    /\ frames' = PPop
    /\ UNCHANGED handedObjs
    /\ UNCHANGED PendOthers

\* parse_function_call with parameters left to defaults: let fctx = Context::new_future()
CallNewFuture ==
    /\ CanEnter /\ HasFree
    /\ pend' = [pend EXCEPT ![Fresh] = NewFuture("call")]
    /\ frames' = Append(frames, PFrame("call", 0, <<Fresh>>))
    /\ UNCHANGED <<handedThunks, handedObjs, panicked, lastUse>>
    /\ UNCHANGED PendOthers

\* parse_function_call: an EvaluateNamedThunk with ctx: fctx.clone() goes to defaults
CallDefault ==
    /\ frames # <<>> /\ PTop.kind = "call" /\ PTop.n < MaxMembers
    /\ frames' = PSetTop([PTop EXCEPT !.caps = @ \cup Range(PTop.own), !.n = @ + 1])
    /\ UNCHANGED <<pend, handedThunks, handedObjs, panicked, lastUse>>
    /\ UNCHANGED PendOthers

\* parse_function_call: extend(passed_args).extend(defaults).into_future(fctx); the
\* body is then evaluated in the context
CallIntoFuture ==
    /\ frames # <<>> /\ PTop.kind = "call"
    /\ pend' = IntoFuture(pend, Range(PTop.own))
    /\ handedThunks' = handedThunks \cup PTop.caps
    /\ frames' = PPop
    /\ UNCHANGED <<handedObjs, panicked, lastUse>>
    /\ UNCHANGED PendOthers

\* the Pendings the constructs under evaluation made or read
InFrames == UNION {Range(frames[i].own) \cup {frames[i].self} : i \in 1 .. Len(frames)}

\* an Err leaves through every `?`: the constructs under evaluation are dropped with
\* what they made
Throw ==
    /\ frames # <<>>
    /\ pend' = [p \in PIds |->
                  IF \E i \in 1 .. Len(frames) : p \in Range(frames[i].own)
                  THEN FreePending
                  ELSE pend[p]]
    /\ frames' = <<>>
    /\ UNCHANGED <<handedThunks, handedObjs, panicked, lastUse>>
    /\ UNCHANGED PendOthers

\* the program forces a thunk it can reach: the thunk unwraps the Pending it captured
Force ==
    /\ EvaluationPoint
    /\ \E t \in handedThunks :
          /\ panicked' = (panicked \/ ~Unwrappable(pend[t]))
          /\ lastUse' = [op |-> "force", p |-> t]
    /\ UNCHANGED <<pend, frames, handedThunks, handedObjs>>
    /\ UNCHANGED PendOthers

\* the last reference to a filled Pending is dropped
Release ==
    /\ \E p \in PIds \ InFrames :
          /\ pend[p].state = "filled"
          /\ pend' = [pend EXCEPT ![p] = FreePending]
          /\ handedThunks' = handedThunks \ {p}
          /\ handedObjs' = handedObjs \ {p}
          /\ lastUse' = IF lastUse.p = p THEN NoUse ELSE lastUse
    /\ UNCHANGED <<frames, panicked>>
    /\ UNCHANGED PendOthers

PendNext ==
    \/ LocalNewFuture
    \/ LocalEvaluateDest
    \/ LocalIntoFuture
    \/ ObjNewFuture
    \/ ObjMember
    \/ ObjBuildFill
    \/ CompStart
    \/ CompIteration
    \/ CompBuildFill
    \/ BindNewFuture
    \/ BindEvaluateDest
    \/ BindUnwrapIntoFuture
    \/ CallNewFuture
    \/ CallDefault
    \/ CallIntoFuture
    \/ Throw
    \/ Force
    \/ Release

MaxArgs == 2

FunctionCallFrame == "function call"
OnlyFunctionsCanBeCalledGot == "OnlyFunctionsCanBeCalledGot"

NoApply == [callee |-> "none", tailstrict |-> FALSE, nargs |-> 0, builtinStrict |-> FALSE,
            failing |-> 0]
NoHist == [pushes |-> 0, inBinding |-> {}, result |-> "none"]

ApplyStart ==
    /\ applyPc = "idle"
    /\ applyCall = NoApply
    /\ traceStack = <<>>
    /\ argBound = 0
    /\ argForced = {}
    /\ applyHist = NoHist

\* Expr::Apply(value, args, tailstrict); the callee is a Normal function, a builtin
\* or no function; a builtin binds its arguments with a flag of its own, since
\* FuncVal::evaluate hands it none; at most one argument fails when evaluated
Apply ==
    /\ applyPc = "idle"
    /\ \E callee \in {"normal", "builtin", "value"}, tailstrict \in BOOLEAN,
          nargs \in 0 .. MaxArgs, builtinStrict \in BOOLEAN :
          \E failing \in 0 .. nargs :
             /\ callee # "builtin" => ~builtinStrict
             /\ applyCall' = [callee |-> callee, tailstrict |-> tailstrict, nargs |-> nargs,
                              builtinStrict |-> builtinStrict, failing |-> failing]
    /\ applyPc' = "callee"
    /\ UNCHANGED <<traceStack, argBound, argForced, applyHist>>
    /\ UNCHANGED ApplyOthers

\* let value = evaluate(value)?; match value
EvaluateCallee ==
    /\ applyPc = "callee"
    /\ IF applyCall.callee = "value"
       THEN /\ applyPc' = "done"
            /\ applyHist' = [applyHist EXCEPT !.result = OnlyFunctionsCanBeCalledGot]
       ELSE /\ applyPc' = "enter"
            /\ UNCHANGED applyHist
    /\ UNCHANGED <<applyCall, traceStack, argBound, argForced>>
    /\ UNCHANGED ApplyOthers

\* if tailstrict { body()? } else { s.push(loc, "function <..> call", body)? }
EnterCall ==
    /\ applyPc = "enter"
    /\ IF applyCall.tailstrict
       THEN UNCHANGED <<traceStack, applyHist>>
       ELSE /\ traceStack' = Append(traceStack, FunctionCallFrame)
            /\ applyHist' = [applyHist EXCEPT !.pushes = @ + 1]
    /\ applyPc' = "bind"
    /\ UNCHANGED <<applyCall, argBound, argForced>>
    /\ UNCHANGED ApplyOthers

\* a variant that hands the flag of the call to builtins too
BindingFlagOfCall(call) == call.tailstrict

\* the tailstrict the argument iterators get: the call's for a Normal function
\* (call_body_context), the builtin's own for b.call(call_ctx, loc, args)
BindingFlag(call) ==
    IF call.callee = "normal" THEN call.tailstrict ELSE call.builtinStrict

\* unnamed_iter / named_iter: the next argument goes to the handler, evaluated first
\* if the flag is set
BindArgument ==
    /\ applyPc = "bind"
    /\ argBound < applyCall.nargs
    /\ LET id == argBound + 1
       IN IF BindingFlag(applyCall)
          THEN /\ argForced' = argForced \cup {id}
               /\ applyHist' = [applyHist EXCEPT
                                   !.inBinding = @ \cup {id},
                                   !.result = IF applyCall.failing = id THEN RuntimeError ELSE @]
               /\ IF applyCall.failing = id
                  THEN applyPc' = "leave" /\ UNCHANGED argBound
                  ELSE applyPc' = "bind" /\ argBound' = id
          ELSE /\ argBound' = id
               /\ UNCHANGED <<applyPc, argForced, applyHist>>
    /\ UNCHANGED <<applyCall, traceStack>>
    /\ UNCHANGED ApplyOthers

\* the binding is over: evaluate(body_ctx, &func.body), or the builtin's own code
BindingDone ==
    /\ applyPc = "bind"
    /\ argBound = applyCall.nargs
    /\ applyPc' = "body"
    /\ UNCHANGED <<applyCall, traceStack, argBound, argForced, applyHist>>
    /\ UNCHANGED ApplyOthers

\* the body reads a parameter whose argument is still a thunk
BodyForce ==
    /\ applyPc = "body"
    /\ \E id \in (1 .. applyCall.nargs) \ argForced :
          /\ argForced' = argForced \cup {id}
          /\ IF applyCall.failing = id
             THEN /\ applyPc' = "leave"
                  /\ applyHist' = [applyHist EXCEPT !.result = RuntimeError]
             ELSE UNCHANGED <<applyPc, applyHist>>
    /\ UNCHANGED <<applyCall, traceStack, argBound>>
    /\ UNCHANGED ApplyOthers

\* the body has its value
BodyReturn ==
    /\ applyPc = "body"
    /\ applyPc' = "leave"
    /\ applyHist' = [applyHist EXCEPT !.result = "ok"]
    /\ UNCHANGED <<applyCall, traceStack, argBound, argForced>>
    /\ UNCHANGED ApplyOthers

\* body() has returned: State::push drops its frame
LeaveCall ==
    /\ applyPc = "leave"
    /\ traceStack' = IF applyCall.tailstrict
                     THEN traceStack
                     ELSE SubSeq(traceStack, 1, Len(traceStack) - 1)
    /\ applyPc' = "done"
    /\ UNCHANGED <<applyCall, argBound, argForced, applyHist>>
    /\ UNCHANGED ApplyOthers

\* evaluate_apply has returned
ApplyReturn ==
    /\ applyPc = "done"
    /\ applyPc' = "idle"
    /\ applyCall' = NoApply
    /\ argBound' = 0
    /\ argForced' = {}
    /\ applyHist' = NoHist
    /\ UNCHANGED traceStack
    /\ UNCHANGED ApplyOthers

ApplyNext ==
    \/ Apply
    \/ EvaluateCallee
    \/ EnterCall
    \/ BindArgument
    \/ BindingDone
    \/ BodyForce
    \/ BodyReturn
    \/ LeaveCall
    \/ ApplyReturn

(***************************************************************************)
(* Properties of evaluate_apply.                                           *)
(***************************************************************************)
\* the call is inside body(): binding or evaluating the body
InsideCall == applyPc \in {"bind", "body", "leave"}

\* C12: a tailstrict call has forced exactly the arguments it has bound, at every
\* point of the binding, and pushes no frame; a call that is not tailstrict has
\* forced no argument when its binding is over and holds exactly one function call
\* frame from the start of the binding to the end of the body
C12_TailstrictAndFrames ==
    /\ (applyCall.tailstrict /\ applyPc \in {"enter", "bind", "body", "leave", "done"}) =>
          /\ traceStack = <<>>
          /\ applyHist.pushes = 0
          /\ applyPc = "bind" => argForced = 1 .. argBound
          /\ (applyPc = "body" /\ applyCall.failing = 0) => argForced = 1 .. applyCall.nargs
    /\ (~applyCall.tailstrict /\ applyCall.callee # "none") =>
          /\ applyHist.inBinding = {}
          /\ applyPc = "bind" => argForced = {}
          /\ InsideCall => traceStack = <<FunctionCallFrame>>
          /\ applyPc \in {"callee", "enter"} => traceStack = <<>>
          /\ (applyPc = "done" /\ applyCall.callee # "value") =>
                traceStack = <<>> /\ applyHist.pushes = 1

\* a tailstrict call of a builtin that binds lazily has bound an argument without
\* evaluating it
C12_BuiltinIgnoresTailstrict ==
    /\ applyPc = "bind"
    /\ applyCall.callee = "builtin"
    /\ applyCall.tailstrict
    /\ ~applyCall.builtinStrict
    /\ argBound = 1
    /\ argForced = {}

(***************************************************************************)
(* Operations on values: indexing. A number is counted in halves, so that  *)
(* h stands for h / 2; a string is its UTF-8 bytes.                        *)
(***************************************************************************)
\* elements of an array, scalars of a string
MaxLen == 3

FractionalIndex == "FractionalIndex"
ArrayBoundsError == "ArrayBoundsError"
StringBoundsError == "StringBoundsError"

\* the numbers an index is drawn from, in halves: -2 to 10
IndexNums == -4 .. 20

ValOk(v) == [kind |-> "ok", val |-> v, err |-> "", at |-> 0, size |-> 0]
\* an error with its two fields
ValErr(e, at, size) == [kind |-> "err", val |-> 0, err |-> e, at |-> at, size |-> size]
NoVal == [kind |-> "none", val |-> 0, err |-> "", at |-> 0, size |-> 0]
NoOp == [op |-> "none"]

ValStart ==
    /\ valPhase = "idle"
    /\ valIn = NoOp
    /\ valOut = NoVal

\* f64::fract(), in halves: the part after the point, with the sign of the number
Fract(h) == IF h >= 0 THEN h % 2 ELSE 0 - ((0 - h) % 2)

\* `n as usize`: the part before the point; a negative number gives 0
AsUsize(h) == IF h < 0 THEN 0 ELSE h \div 2

\* Index, (Val::Arr(v), Val::Num(n))
IndexArr(v, n) ==
    IF Fract(n) > 0
    THEN ValErr(FractionalIndex, 0, 0)
    ELSE IF AsUsize(n) < Len(v)
         THEN ValOk(v[AsUsize(n) + 1])
         ELSE ValErr(ArrayBoundsError, AsUsize(n), Len(v))

\* the UTF-8 bytes of the scalars the strings are made of: `a` and `é`
ScalarBytes == {<<97>>, <<195, 169>>}

RECURSIVE Concat(_)
Concat(ss) == IF ss = <<>> THEN <<>> ELSE Head(ss) \o Concat(Tail(ss))

\* str::chars(): the scalars of the bytes
RECURSIVE Chars(_)
Chars(bytes) ==
    IF bytes = <<>>
    THEN <<>>
    ELSE IF bytes[1] < 128
         THEN <<SubSeq(bytes, 1, 1)>> \o Chars(SubSeq(bytes, 2, Len(bytes)))
         ELSE <<SubSeq(bytes, 1, 2)>> \o Chars(SubSeq(bytes, 3, Len(bytes)))

\* Iterator::skip(k).take(1)
SkipTake1(cs, k) == IF k < Len(cs) THEN <<cs[k + 1]>> ELSE <<>>

\* Index, (Val::Str(s), Val::Num(n))
IndexStr(str, n) ==
    LET v == Concat(SkipTake1(Chars(str), AsUsize(n)))
    IN IF v = <<>>
       THEN ValErr(StringBoundsError, AsUsize(n), Len(Chars(str)))
       ELSE ValOk(v)

Arrays == UNION {[1 .. len -> 1 .. 3] : len \in 0 .. MaxLen}
Strings == {Concat(ss) : ss \in UNION {[1 .. len -> ScalarBytes] : len \in 0 .. MaxLen}}

\* evaluate of Index with an array and a number
EvaluateIndexArr ==
    /\ valPhase = "idle"
    /\ \E v \in Arrays, n \in IndexNums :
          /\ valIn' = [op |-> "IndexArr", v |-> v, n |-> n]
          /\ valOut' = IndexArr(v, n)
    /\ valPhase' = "done"
    /\ UNCHANGED ValOthers

\* evaluate of Index with a string and a number
EvaluateIndexStr ==
    /\ valPhase = "idle"
    /\ \E str \in Strings, n \in IndexNums :
          /\ valIn' = [op |-> "IndexStr", v |-> str, n |-> n]
          /\ valOut' = IndexStr(str, n)
    /\ valPhase' = "done"
    /\ UNCHANGED ValOthers

(***************************************************************************)
(* Values for equality. A number v stands for 1 + v * f64::EPSILON; a      *)
(* string, a function and a field are known by a number; `ptr` is the Cc   *)
(* an array or object lives in; an element or field of the tag "fail" is a *)
(* thunk whose evaluation fails.                                           *)
(***************************************************************************)
\* elements of an array that is compared
MaxElems == 2

PrimitiveGotArray == "primitiveEquals operates on primitive types, got array"
PrimitiveGotObject == "primitiveEquals operates on primitive types, got object"
FunctionEquality == "cannot test equality of functions"

Prim(t, v) == [t |-> t, v |-> v, rep |-> "", ptr |-> 0, items |-> <<>>]
FuncV(id) == Prim("func", id)
FailingThunk == Prim("fail", 0)
ArrV(r, ptr, items) == [t |-> "arr", v |-> 0, rep |-> r, ptr |-> ptr, items |-> items]
\* ArrValue::Extended(Box<(a, b)>)
ExtendedV(a, b) == ArrV("ext", 0, <<a, b>>)
FieldV(name, hide, val) == [name |-> name, hide |-> hide, val |-> val]
ObjV(ptr, fields) == [t |-> "obj", v |-> 0, rep |-> "", ptr |-> ptr, items |-> fields]

PrimVals ==
    {Prim("null", 0), Prim("bool", 0), Prim("bool", 1), Prim("str", 1), Prim("str", 2),
     Prim("num", 0), Prim("num", 1), Prim("num", 5)}
FuncVals == {FuncV(1), FuncV(2)}

\* what an element is drawn from: numbers within and beyond EPSILON, a function, an
\* array, a thunk that fails
InnerArr == ArrV("eager", 9, <<Prim("num", 1)>>)
ElemVals == {Prim("num", 0), Prim("num", 1), FuncV(1), InnerArr, FailingThunk}

SeqsUpTo(S, n) == UNION {[1 .. len -> S] : len \in 0 .. n}

LazyArrs == {ArrV("lazy", ptr, items) : ptr \in {1, 2}, items \in SeqsUpTo(ElemVals, MaxElems)}
EagerArrs ==
    {ArrV("eager", ptr, items) :
        ptr \in {3, 4}, items \in SeqsUpTo(ElemVals \ {FailingThunk}, MaxElems)}
ExtendedArrs ==
    {ExtendedV(ArrV("lazy", 7, x), ArrV("lazy", 8, y)) : x, y \in SeqsUpTo(ElemVals, 1)}
ArrVals == LazyArrs \cup EagerArrs \cup ExtendedArrs

\* the fields x (1) and y (2) of an object: absent, visible or hidden
FieldChoices(name) ==
    {<<>>} \cup {<<FieldV(name, FALSE, val)>> :
                    val \in {Prim("num", 0), Prim("num", 5), FuncV(1), FailingThunk}}
           \cup {<<FieldV(name, TRUE, Prim("num", 0))>>}
ObjVals == {ObjV(ptr, x \o y) : ptr \in {5, 6}, x \in FieldChoices(1), y \in FieldChoices(2)}

Vals == PrimVals \cup FuncVals \cup ArrVals \cup ObjVals

\* the vectors and objects a value is made of
RECURSIVE Cells(_)
Cells(x) ==
    (IF x.ptr # 0 THEN {x} ELSE {})
        \cup (IF x.t = "arr" THEN UNION {Cells(x.items[i]) : i \in 1 .. Len(x.items)} ELSE {})

\* two values of one program: one Cc holds one vector, one object
Coexist(a, b) == \A p, q \in Cells(a) \cup Cells(b) : p.ptr = q.ptr => p = q

\* ArrValue::len
RECURSIVE ArrValueLen(_)
ArrValueLen(a) ==
    IF a.rep = "ext"
    THEN ArrValueLen(a.items[1]) + ArrValueLen(a.items[2])
    ELSE Len(a.items)

\* ArrValue::iter at idx: the element, evaluated
RECURSIVE ArrValueGet(_, _)
ArrValueGet(a, index) ==
    IF a.rep = "ext"
    THEN IF ArrValueLen(a.items[1]) > index
         THEN ArrValueGet(a.items[1], index)
         ELSE ArrValueGet(a.items[2], index - ArrValueLen(a.items[1]))
    ELSE a.items[index + 1]

\* a variant that knows no pointer
ArrPtrEqNever(a, b) == FALSE

\* ArrValue::ptr_eq
ArrPtrEq(a, b) ==
    CASE a.rep = "lazy" /\ b.rep = "lazy" -> a.ptr = b.ptr
      [] a.rep = "eager" /\ b.rep = "eager" -> a.ptr = b.ptr
      [] OTHER -> FALSE

\* ObjValue::ptr_eq
ObjPtrEq(a, b) == a.ptr = b.ptr

\* ObjValue::fields: the names of the visible fields, in order
Fields(o) == SelectSeq(o.items, LAMBDA f : ~f.hide)
FieldNames(o) == [i \in 1 .. Len(Fields(o)) |-> Fields(o)[i].name]

\* a variant that compares numbers exactly
NumEqExact(a, b) == a = b

\* (a - b).abs() <= f64::EPSILON
NumEq(a, b) == (IF a >= b THEN a - b ELSE b - a) <= 1

\* primitive_equals
primitive_equals(val_a, val_b) ==
    CASE val_a.t = "bool" /\ val_b.t = "bool" -> ValOk(val_a.v = val_b.v)
      [] val_a.t = "null" /\ val_b.t = "null" -> ValOk(TRUE)
      [] val_a.t = "str" /\ val_b.t = "str" -> ValOk(val_a.v = val_b.v)
      [] val_a.t = "num" /\ val_b.t = "num" -> ValOk(NumEq(val_a.v, val_b.v))
      [] val_a.t = "arr" /\ val_b.t = "arr" -> ValErr(PrimitiveGotArray, 0, 0)
      [] val_a.t = "obj" /\ val_b.t = "obj" -> ValErr(PrimitiveGotObject, 0, 0)
      [] val_a.t = "func" /\ val_b.t = "func" -> ValErr(FunctionEquality, 0, 0)
      [] OTHER -> ValOk(FALSE)

RECURSIVE equals(_, _)
RECURSIVE ZipEquals(_, _, _)
RECURSIVE FieldsEqual(_, _, _)

\* equals: for (a, b) in a.iter().zip(b.iter()), from idx on
ZipEquals(a, b, idx) ==
    IF idx >= ArrValueLen(a)
    THEN ValOk(TRUE)
    ELSE LET x == ArrValueGet(a, idx)
             y == ArrValueGet(b, idx)
         IN IF x.t = "fail" \/ y.t = "fail"
            THEN ValErr(RuntimeError, 0, 0)
            ELSE LET r == equals(x, y)
                 IN IF r.kind = "err"
                    THEN r
                    ELSE IF ~r.val THEN ValOk(FALSE) ELSE ZipEquals(a, b, idx + 1)

\* equals: for field in fields, from the i-th on
FieldsEqual(a, b, i) ==
    IF i > Len(Fields(a))
    THEN ValOk(TRUE)
    ELSE LET x == Fields(a)[i].val
             y == Fields(b)[i].val
         IN IF x.t = "fail" \/ y.t = "fail"
            THEN ValErr(RuntimeError, 0, 0)
            ELSE LET r == equals(x, y)
                 IN IF r.kind = "err"
                    THEN r
                    ELSE IF ~r.val THEN ValOk(FALSE) ELSE FieldsEqual(a, b, i + 1)

\* equals
equals(val_a, val_b) ==
    IF val_a.t # val_b.t
    THEN ValOk(FALSE)
    ELSE CASE val_a.t = "arr" ->
                IF ArrPtrEq(val_a, val_b)
                THEN ValOk(TRUE)
                ELSE IF ArrValueLen(val_a) # ArrValueLen(val_b)
                     THEN ValOk(FALSE)
                     ELSE ZipEquals(val_a, val_b, 0)
           [] val_a.t = "obj" ->
                IF ObjPtrEq(val_a, val_b)
                THEN ValOk(TRUE)
                ELSE IF FieldNames(val_a) # FieldNames(val_b)
                     THEN ValOk(FALSE)
                     ELSE FieldsEqual(val_a, val_b, 1)
           [] OTHER -> primitive_equals(val_a, val_b)

\* std.primitiveEquals of two values
PrimitiveEquals ==
    /\ valPhase = "idle"
    /\ \E a \in Vals, b \in Vals :
          /\ Coexist(a, b)
          /\ valIn' = [op |-> "primitiveEquals", a |-> a, b |-> b]
          /\ valOut' = primitive_equals(a, b)
    /\ valPhase' = "done"
    /\ UNCHANGED ValOthers

\* std.equals of two values, both ways round, and of the first with itself
Equals ==
    /\ valPhase = "idle"
    /\ \E a \in Vals, b \in Vals :
          /\ Coexist(a, b)
          /\ valIn' = [op |-> "equals", a |-> a, b |-> b]
          /\ valOut' = [ab |-> equals(a, b), ba |-> equals(b, a), aa |-> equals(a, a)]
    /\ valPhase' = "done"
    /\ UNCHANGED ValOthers

(***************************************************************************)
(* Numbers. An f64 is a finite number, one of the two infinities, or NaN.  *)
(***************************************************************************)
\* the finite numbers drawn are -MaxNum .. MaxNum
MaxNum == 2

PosInf == [class |-> "inf", n |-> 1]
NegInf == [class |-> "inf", n |->  -1]
NaN == [class |-> "nan", n |-> 0]
Finite(n) == [class |-> "finite", n |-> n]
F64 == {Finite(n) : n \in -MaxNum .. MaxNum} \cup {PosInf, NegInf, NaN}

\* a variant that only looks for NaN
IsNotNan(num) == num.class # "nan"

\* f64::is_finite
IsFinite(num) == num.class = "finite"

OverflowMessage == "overflow"

\* Val::new_checked_num
new_checked_num(num) ==
    IF IsFinite(num)
    THEN [kind |-> "ok", val |-> [t |-> "num", f |-> num], err |-> "", msg |-> ""]
    ELSE [kind |-> "err", val |-> [t |-> "none", f |-> Finite(0)], err |-> RuntimeError,
          msg |-> OverflowMessage]

\* evaluate: the literal Num(v)
EvaluateNum ==
    /\ valPhase = "idle"
    /\ \E v \in F64 :
          /\ valIn' = [op |-> "num", v |-> v]
          /\ valOut' = new_checked_num(v)
    /\ valPhase' = "done"
    /\ UNCHANGED ValOthers

(***************************************************************************)
(* Arrays: the operations of ArrValue on a concatenation.                  *)
(***************************************************************************)
\* Result<Option<Val>>: an element, no element, or the error of a thunk
Some(v) == [kind |-> "some", val |-> v]
None == [kind |-> "none", val |-> Prim("null", 0)]
Failure == [kind |-> "err", val |-> Prim("null", 0)]
\* Option::unwrap of None
Panic == [kind |-> "panic", val |-> Prim("null", 0)]

\* LazyVal::evaluate
LazyEvaluate(x) == IF x.t = "fail" THEN Failure ELSE Some(x)

\* Vec::get
VecGet(vec, index) == IF index < Len(vec) THEN Some(vec[index + 1]) ELSE None

\* a variant that looks in the left half one index too far
InLeftOrAt(a_len, index) == a_len >= index

\* if a_len > index
InLeft(a_len, index) == a_len > index

\* ArrValue::get_lazy: the element as it is stored, not evaluated
RECURSIVE get_lazy(_, _)
get_lazy(a, index) ==
    IF a.rep = "ext"
    THEN LET a_len == ArrValueLen(a.items[1])
         IN IF InLeft(a_len, index)
            THEN get_lazy(a.items[1], index)
            ELSE get_lazy(a.items[2], index - a_len)
    ELSE VecGet(a.items, index)

\* ArrValue::get
RECURSIVE get(_, _)
get(a, index) ==
    CASE a.rep = "ext" ->
            LET a_len == ArrValueLen(a.items[1])
            IN IF InLeft(a_len, index)
               THEN get(a.items[1], index)
               ELSE get(a.items[2], index - a_len)
      [] a.rep = "lazy" ->
            IF VecGet(a.items, index).kind = "some"
            THEN LazyEvaluate(VecGet(a.items, index).val)
            ELSE None
      [] OTHER -> VecGet(a.items, index)

\* ArrValue::iter: what the iterator yields, index by index
iter(a) ==
    [n \in 1 .. ArrValueLen(a) |->
        CASE a.rep = "lazy" -> LazyEvaluate(a.items[n])
          [] a.rep = "eager" -> Some(a.items[n])
          [] OTHER -> IF get(a, n - 1).kind = "none" THEN Panic ELSE get(a, n - 1)]

\* for item in ...: out.push(item?)
Collect(results) ==
    IF \E n \in 1 .. Len(results) : results[n].kind # "some"
    THEN LET n == CHOOSE m \in 1 .. Len(results) :
                      /\ results[m].kind # "some"
                      /\ \A j \in 1 .. m - 1 : results[j].kind = "some"
         IN [kind |-> results[n].kind, items |-> <<>>]
    ELSE [kind |-> "ok", items |-> [n \in 1 .. Len(results) |-> results[n].val]]

\* ArrValue::evaluated
evaluated(a) ==
    CASE a.rep = "lazy" -> Collect([n \in 1 .. Len(a.items) |-> LazyEvaluate(a.items[n])])
      [] a.rep = "eager" -> [kind |-> "ok", items |-> a.items]
      [] OTHER -> Collect(iter(a))

\* the vectors a concatenation is made of: thunks, one of them failing, and
\* values
LazyLeaves == {ArrV("lazy", 1, items) : items \in SeqsUpTo({Prim("num", 1), FailingThunk}, MaxElems)}
EagerLeaves == {ArrV("eager", 3, items) : items \in SeqsUpTo({Prim("num", 0), Prim("num", 5)}, MaxElems)}
Leaves == LazyLeaves \cup EagerLeaves
ShortLeaves ==
    {ArrV("lazy", 2, <<>>), ArrV("lazy", 2, <<FailingThunk>>), ArrV("eager", 4, <<Prim("num", 5)>>)}
Pairs == {ExtendedV(x, y) : x, y \in Leaves}
Concatenations ==
    Pairs \cup {ExtendedV(x, y) : x \in Pairs, y \in ShortLeaves}
          \cup {ExtendedV(x, y) : x \in ShortLeaves, y \in Pairs}

\* the operations of ArrValue on a concatenation, at every index up to one
\* past its length
ArrValueOps ==
    /\ valPhase = "idle"
    /\ \E a \in Concatenations :
          /\ valIn' = [op |-> "concat", a |-> a]
          /\ valOut' = [len |-> ArrValueLen(a),
                        get |-> [i \in 0 .. ArrValueLen(a) + 1 |-> get(a, i)],
                        get_lazy |-> [i \in 0 .. ArrValueLen(a) + 1 |-> get_lazy(a, i)],
                        iter |-> iter(a),
                        evaluated |-> evaluated(a)]
    /\ valPhase' = "done"
    /\ UNCHANGED ValOthers

\* the value is handed back
ValReturn ==
    /\ valPhase = "done"
    /\ valPhase' = "idle"
    /\ valIn' = NoOp
    /\ valOut' = NoVal
    /\ UNCHANGED ValOthers

ValNext ==
    \/ EvaluateIndexArr
    \/ EvaluateIndexStr
    \/ PrimitiveEquals
    \/ EvaluateNum
    \/ Equals
    \/ ArrValueOps
    \/ ValReturn

(***************************************************************************)
(* Properties of the operations on values.                                 *)
(***************************************************************************)
ValDone(op) == valPhase = "done" /\ valIn.op = op

\* the number in halves is a whole number
Integral(h) == h % 2 = 0

\* C13: indexing an array of length len with a number n fails with FractionalIndex
\* when n is not integral, fails with ArrayBoundsError(n, len) when n is integral
\* and negative or at least len, and returns element n otherwise
C13_ArrayIndex ==
    ValDone("IndexArr") =>
       LET n == valIn.n
           len == Len(valIn.v)
       IN IF ~Integral(n)
          THEN valOut = ValErr(FractionalIndex, 0, 0)
          ELSE IF n < 0 \/ n \div 2 >= len
               THEN /\ valOut.kind = "err"
                    /\ valOut.err = ArrayBoundsError
                    /\ valOut.at * 2 = n
                    /\ valOut.size = len
               ELSE valOut = ValOk(valIn.v[(n \div 2) + 1])

\* [1, 2, 3][-1] has returned the first element
C13_NegativeIndex ==
    /\ ValDone("IndexArr")
    /\ valIn.v = <<1, 2, 3>>
    /\ valIn.n = -2
    /\ valOut = ValOk(1)

\* the scalars of a string, read off its bytes: a lead byte of two opens a scalar of
\* two bytes
ScalarStarts(bytes) ==
    {i \in 1 .. Len(bytes) : bytes[i] = 97 \/ bytes[i] = 195}

NthScalar(bytes, k) ==
    LET i == CHOOSE i \in ScalarStarts(bytes) :
                Cardinality({j \in ScalarStarts(bytes) : j < i}) = k
    IN IF bytes[i] = 97 THEN <<97>> ELSE <<195, 169>>

\* C14: indexing a string with a number n returns the string of its n-th scalar
\* when 0 <= n < number of scalars, and fails with StringBoundsError(n, number of
\* scalars) for every other n
C14_StringIndex ==
    (ValDone("IndexStr") /\ Integral(valIn.n)) =>
       LET n == valIn.n
           count == Cardinality(ScalarStarts(valIn.v))
       IN IF 0 <= n /\ n \div 2 < count
          THEN valOut = ValOk(NthScalar(valIn.v, n \div 2))
          ELSE /\ valOut.kind = "err"
               /\ valOut.err = StringBoundsError
               /\ valOut.at * 2 = n
               /\ valOut.size = count

\* "éa"[-1] has returned "é"
C14_NegativeIndex ==
    /\ ValDone("IndexStr")
    /\ valIn.v = <<195, 169, 97>>
    /\ valIn.n = -2
    /\ valOut = ValOk(<<195, 169>>)

(***************************************************************************)
(* Equality of values.                                                     *)
(***************************************************************************)
Composite(x) == x.t \in {"arr", "obj", "func"}
Primitive(x) == x.t \in {"bool", "null", "str", "num"}

\* C15, as the specification words it: std.primitiveEquals fails with an error
\* whenever one of its two values is an array, an object or a function, and on
\* two primitives it is true exactly when they have the same type and the same
\* value.
C15_AsStated ==
    ValDone("primitiveEquals") =>
        /\ (Composite(valIn.a) \/ Composite(valIn.b)) => valOut.kind = "err"
        /\ (Primitive(valIn.a) /\ Primitive(valIn.b)) =>
              valOut = ValOk(valIn.a.t = valIn.b.t /\ valIn.a.v = valIn.b.v)

\* C15: std.primitiveEquals fails with an error on two arrays, on two objects
\* and on two functions; on two values of different types, an array, object or
\* function among them or not, it is false; on two primitives of one type it is
\* true exactly when they are equal, two numbers being equal when they differ by
\* no more than f64::EPSILON.
C15_PrimitiveEquals ==
    ValDone("primitiveEquals") =>
        /\ (valIn.a.t = valIn.b.t /\ Composite(valIn.a)) =>
              /\ valOut.kind = "err"
              /\ valOut.err = CASE valIn.a.t = "arr" -> PrimitiveGotArray
                                [] valIn.a.t = "obj" -> PrimitiveGotObject
                                [] OTHER -> FunctionEquality
        /\ valIn.a.t # valIn.b.t => valOut = ValOk(FALSE)
        /\ (valIn.a.t = valIn.b.t /\ valIn.a.t \in {"bool", "null", "str"}) =>
              valOut = ValOk(valIn.a.v = valIn.b.v)
        /\ (valIn.a.t = "num" /\ valIn.b.t = "num") =>
              valOut = ValOk(valIn.a.v - valIn.b.v \in -1 .. 1)

\* an array against a number is false, and two numbers EPSILON apart are equal
C15_Witness ==
    /\ ValDone("primitiveEquals")
    /\ valIn.a.t = "num" /\ valIn.b.t = "num" /\ valIn.a.v # valIn.b.v
    /\ valOut = ValOk(TRUE)

C15_MixedPair ==
    /\ ValDone("primitiveEquals")
    /\ valIn.a.t = "arr" /\ valIn.b.t = "num"
    /\ valOut = ValOk(FALSE)

\* the elements of an array, a concatenation flattened
Flat(a) == [i \in 1 .. ArrValueLen(a) |-> ArrValueGet(a, i - 1)]

\* what a comparison may look at: the elements, the values of the visible fields
Parts(x) ==
    CASE x.t = "arr" -> Flat(x)
      [] x.t = "obj" -> [i \in 1 .. Len(Fields(x)) |-> Fields(x)[i].val]
      [] OTHER -> <<>>

RECURSIVE Contains(_, _)
Contains(x, tag) == x.t = tag \/ \E i \in 1 .. Len(Parts(x)) : Contains(Parts(x)[i], tag)

FunctionFree(x) == ~Contains(x, "func")
Evaluable(x) == ~Contains(x, "fail")

\* the same vector or the same object behind both values
PointerIdentical(a, b) ==
    /\ a.t \in {"arr", "obj"}
    /\ a = b

\* equal as JSON values, numbers within EPSILON
RECURSIVE SameValue(_, _)
SameValue(a, b) ==
    /\ a.t = b.t
    /\ CASE a.t = "num" -> a.v - b.v \in -1 .. 1
         [] a.t = "arr" ->
              /\ Len(Flat(a)) = Len(Flat(b))
              /\ \A i \in 1 .. Len(Flat(a)) : SameValue(Flat(a)[i], Flat(b)[i])
         [] a.t = "obj" ->
              /\ FieldNames(a) = FieldNames(b)
              /\ \A i \in 1 .. Len(Parts(a)) : SameValue(Parts(a)[i], Parts(b)[i])
         [] OTHER -> a.v = b.v

C16_PointerShortcut ==
    /\ ValDone("equals")
    /\ valIn.a.t = "arr" /\ valIn.a.rep = "lazy" /\ ~Evaluable(valIn.a)
    /\ valIn.a = valIn.b
    /\ valOut.ab = ValOk(TRUE)

\* two objects with the same visible fields and another hidden field: equal
C16_Objects ==
    /\ ValDone("equals")
    /\ valIn.a.t = "obj" /\ valIn.b.t = "obj" /\ valIn.a.ptr # valIn.b.ptr
    /\ Len(Fields(valIn.a)) = 1 /\ Len(valIn.a.items) = 2 /\ Len(valIn.b.items) = 1
    /\ valOut.ab = ValOk(TRUE)

(***************************************************************************)
(* Number finiteness.                                                      *)
(***************************************************************************)
\* the error kind the specification names for a non-finite number
Overflow == "Overflow"

MaxSpecs == 2

InComprehensionCanOnlyIterateOverArray == "InComprehensionCanOnlyIterateOverArray"
FieldMustBeStringGot == "FieldMustBeStringGot"
TypeErrorExpectedGot == "TypeError: ExpectedGot"
BinaryOperatorDoesNotOperateOnValues == "BinaryOperatorDoesNotOperateOnValues"
DuplicateFieldName == "DuplicateFieldName"

ENull == Prim("null", 0)
ENum(n) == Prim("num", n)
EStr(k) == Prim("str", k)
ETrue == Prim("bool", 1)
EFalse == Prim("bool", 0)
EArr(items) == ArrV("lazy", 1, items)

\* the variables a context may bind; no binding is NotBound
CompVars == {"x", "y"}
NotBound == Prim("unbound", 0)

\* Option<ObjValue>::None
NoObj == "none"

\* Context: the bindings and the three object slots
Ctx(bindings, dollar, this, super_obj) ==
    [vars |-> bindings, dollar |-> dollar, this |-> this, super_obj |-> super_obj]
TopContext == Ctx([v \in CompVars |-> NotBound], NoObj, NoObj, NoObj)

\* Context::with_var
with_var(ctx, name, value) == [ctx EXCEPT !.vars[name] = value]

\* the expressions
Lit(v) == [e |-> "lit", x |-> "", k |-> 0, v |-> v]
Var(x) == [e |-> "var", x |-> x, k |-> 0, v |-> ENull]
Ne(x, k) == [e |-> "ne", x |-> x, k |-> k, v |-> ENull]
Mul(x, k) == [e |-> "mul", x |-> x, k |-> k, v |-> ENull]
ErrorExpr == [e |-> "error", x |-> "", k |-> 0, v |-> ENull]

\* an evaluation's result: a value, or an error and the type it met
EOk(v) == [kind |-> "ok", val |-> v, err |-> "", got |-> ""]
EErr(e, got) == [kind |-> "err", val |-> ENull, err |-> e, got |-> got]

\* evaluate, for the forms above
Evaluate(ctx, expr) ==
    CASE expr.e = "lit" -> EOk(expr.v)
      [] expr.e = "error" -> EErr(RuntimeError, "")
      [] ctx.vars[expr.x] = NotBound -> EErr(VariableIsNotDefined, "")
      [] expr.e = "var" -> EOk(ctx.vars[expr.x])
      [] expr.e = "ne" -> EOk(IF ctx.vars[expr.x] = ENum(expr.k) THEN EFalse ELSE ETrue)
      [] OTHER ->
            IF ctx.vars[expr.x].t = "num"
            THEN EOk(ENum(ctx.vars[expr.x].v * expr.k))
            ELSE EErr(BinaryOperatorDoesNotOperateOnValues, ctx.vars[expr.x].t)

\* T::from_untyped: ValType::check, then the value
FromUntyped(ty, r) ==
    IF r.kind = "err" THEN r
    ELSE IF r.val.t # ty THEN EErr(TypeErrorExpectedGot, r.val.t) ELSE r

\* the specs of a comprehension
IfSpec(cond) == [s |-> "if", var |-> "", expr |-> cond]
ForSpec(var, expr) == [s |-> "for", var |-> var, expr |-> expr]

\* what a comprehension has done so far: the contexts its continuation was
\* called with, and what the continuation collected
Acc(calls, out) == [calls |-> calls, out |-> out]
Going(acc) == [acc |-> acc, err |-> "", got |-> ""]
Stopped(acc, r) == [acc |-> acc, err |-> r.err, got |-> r.got]

\* a member of an object under construction
MemberV(name, hide) == [name |-> name, hide |-> hide]

\* ObjValueBuilder::member(name)...bindable(): a name is taken once
Bindable(acc, m) ==
    IF \E i \in 1 .. Len(acc.out) : acc.out[i].name = m.name
    THEN Stopped(acc, EErr(DuplicateFieldName, ""))
    ELSE Going(Acc(acc.calls, Append(acc.out, m)))

\* the closures evaluate_comp is called with
ArrCompCallback(expr) == [kind |-> "arr", expr |-> expr]
ObjCompCallback(key) == [kind |-> "obj", expr |-> key]

\* evaluate_object, ObjComp: match key
ObjCompKey(acc, key) ==
    CASE key.val.t = "null" -> Going(acc)
      [] key.val.t = "str" -> Bindable(acc, MemberV(key.val.v, FALSE))
      [] OTHER -> Stopped(acc, EErr(FieldMustBeStringGot, key.val.t))

\* callback(ctx): the closure of ArrComp pushes the item, the closure of
\* ObjComp evaluates the key and adds the member
Callback(cb, ctx, acc) ==
    LET called == Acc(Append(acc.calls, ctx), acc.out)
        r == Evaluate(ctx, cb.expr)
    IN IF r.kind = "err"
       THEN Stopped(called, r)
       ELSE IF cb.kind = "arr"
            THEN Going(Acc(called.calls, Append(called.out, r.val)))
            ELSE ObjCompKey(called, r)

\* a variant that lets every combination through
IfPassesAlways(c) == TRUE

\* if bool::from_untyped(...)
IfPasses(c) == c.val = ETrue

RECURSIVE evaluate_comp(_, _, _, _)
RECURSIVE CompItems(_, _, _, _, _, _, _)

\* for item in list.iter(): evaluate_comp with the variable bound to the item
CompItems(ctx, var, list, idx, rest, cb, acc) ==
    IF idx >= ArrValueLen(list)
    THEN Going(acc)
    ELSE LET item == ArrValueGet(list, idx)
         IN IF item.t = "fail"
            THEN Stopped(acc, EErr(RuntimeError, ""))
            ELSE LET r == evaluate_comp(with_var(ctx, var, item), rest, cb, acc)
                 IN IF r.err # ""
                    THEN r
                    ELSE CompItems(ctx, var, list, idx + 1, rest, cb, r.acc)

\* evaluate_comp
evaluate_comp(ctx, specs, cb, acc) ==
    IF specs = <<>>
    THEN Callback(cb, ctx, acc)
    ELSE IF Head(specs).s = "if"
         THEN LET c == FromUntyped("bool", Evaluate(ctx, Head(specs).expr))
              IN IF c.kind = "err"
                 THEN Stopped(acc, c)
                 ELSE IF IfPasses(c)
                      THEN evaluate_comp(ctx, Tail(specs), cb, acc)
                      ELSE Going(acc)
         ELSE LET r == Evaluate(ctx, Head(specs).expr)
              IN IF r.kind = "err"
                 THEN Stopped(acc, r)
                 ELSE IF r.val.t = "arr"
                      THEN CompItems(ctx, Head(specs).var, r.val, 0, Tail(specs), cb, acc)
                      ELSE Stopped(acc, EErr(InComprehensionCanOnlyIterateOverArray, ""))

\* what the expression forms are drawn from
OneTwoThree == EArr(<<ENum(1), ENum(2), ENum(3)>>)
Nested == EArr(<<EArr(<<ENum(1), ENum(2)>>), EArr(<<ENum(3)>>)>>)
SpecChoices ==
    {ForSpec("x", Lit(OneTwoThree)), ForSpec("x", Lit(Nested)), ForSpec("y", Var("x")),
     ForSpec("y", Lit(EArr(<<ENum(2), ENum(1)>>))), ForSpec("x", Lit(EArr(<<>>))),
     ForSpec("x", Lit(ENum(1))), ForSpec("x", Lit(EArr(<<ENum(1), FailingThunk>>))),
     ForSpec("x", ErrorExpr),
     IfSpec(Ne("x", 2)), IfSpec(Ne("y", 1)), IfSpec(Lit(EFalse)), IfSpec(Lit(ENum(1)))}
CompSpecs == SeqsUpTo(SpecChoices, MaxSpecs) \ {<<>>}
ItemExprs == {Mul("x", 2), Mul("y", 2), Var("x"), Var("y")}

\* an evaluation's outcome: the value or the error, and the calls made
CompOk(val, calls) == [kind |-> "ok", val |-> val, err |-> "", got |-> "", calls |-> calls]
CompErr(r) == [kind |-> "err", val |-> ENull, err |-> r.err, got |-> r.got, calls |-> r.acc.calls]

\* evaluate, ArrComp(expr, comp_specs)
ArrComp(ctx, expr, comp_specs) ==
    LET r == evaluate_comp(ctx, comp_specs, ArrCompCallback(expr), Acc(<<>>, <<>>))
    IN IF r.err # ""
       THEN CompErr(r)
       ELSE CompOk(ArrV("eager", 2, r.acc.out), r.acc.calls)

\* an array comprehension is evaluated
EvaluateArrComp ==
    /\ valPhase = "idle"
    /\ \E expr \in ItemExprs, specs \in CompSpecs :
          /\ valIn' = [op |-> "ArrComp", expr |-> expr, specs |-> specs]
          /\ valOut' = ArrComp(TopContext, expr, specs)
    /\ valPhase' = "done"
    /\ UNCHANGED ValOthers

\* Context::extend: a slot that is given replaces the old one, the bindings
\* given shadow the old ones
extend(ctx, new_bindings, new_dollar, new_sup, new_this) ==
    Ctx([v \in CompVars |-> IF new_bindings[v] # NotBound THEN new_bindings[v] ELSE ctx.vars[v]],
        IF new_dollar # NoObj THEN new_dollar ELSE ctx.dollar,
        IF new_this # NoObj THEN new_this ELSE ctx.this,
        IF new_sup # NoObj THEN new_sup ELSE ctx.super_obj)

\* GcHashMap::new()
NoBindings == [v \in CompVars |-> NotBound]

\* the object a builder builds
BuiltObj == "built"

\* FieldName
Fixed(n) == [f |-> "fixed", n |-> n, expr |-> Lit(ENull)]
Dyn(expr) == [f |-> "dyn", n |-> 0, expr |-> expr]

\* Member: a field, a method (params: Some), a local, an assertion
Field(name, hide) == [m |-> "field", name |-> name, hide |-> hide]
Method(name) == [m |-> "method", name |-> name, hide |-> TRUE]
BindStmt == [m |-> "bind", name |-> Fixed(0), hide |-> FALSE]
AssertStmt == [m |-> "assert", name |-> Fixed(0), hide |-> FALSE]

\* Option<IStr>: None is 0
SomeName(n) == [kind |-> "ok", name |-> n, err |-> "", got |-> ""]
NoName == SomeName(0)
NameErr(r) == [kind |-> "err", name |-> 0, err |-> r.err, got |-> r.got]

\* evaluate_field_name, the closure: null is no name, anything else must
\* convert to a string
FieldNameOf(value) ==
    IF value.val = ENull
    THEN NoName
    ELSE LET str == FromUntyped("str", value)
         IN IF str.kind = "err" THEN NameErr(str) ELSE SomeName(str.val.v)

\* evaluate_field_name
evaluate_field_name(ctx, field_name) ==
    IF field_name.f = "fixed"
    THEN SomeName(field_name.n)
    ELSE LET value == Evaluate(ctx, field_name.expr)
         IN IF value.kind = "err" THEN NameErr(value) ELSE FieldNameOf(value)

\* the members and the assertions of the object under construction
RECURSIVE MemberLoop(_, _, _, _)
MemberLoop(ctx, members, i, acc) ==
    IF i > Len(members)
    THEN Going(acc)
    ELSE CASE members[i].m \in {"field", "method"} ->
                LET name == evaluate_field_name(ctx, members[i].name)
                IN IF name.kind = "err"
                   THEN Stopped(acc, name)
                   ELSE IF name.name = 0
                        THEN MemberLoop(ctx, members, i + 1, acc)
                        ELSE LET r == Bindable(acc, MemberV(name.name, members[i].hide))
                             IN IF r.err # ""
                                THEN r
                                ELSE MemberLoop(ctx, members, i + 1, r.acc)
           [] members[i].m = "assert" ->
                MemberLoop(ctx, members, i + 1, Acc(Append(acc.calls, i), acc.out))
           [] OTHER -> MemberLoop(ctx, members, i + 1, acc)

\* an object construction's outcome: the members of the object with its
\* assertions and the contexts filled with it, or the error
ObjOk(members, asserts, ctxs) ==
    [kind |-> "ok", members |-> members, asserts |-> asserts, ctxs |-> ctxs,
     err |-> "", got |-> ""]
ObjErr(r) ==
    [kind |-> "err", members |-> <<>>, asserts |-> <<>>, ctxs |-> <<>>,
     err |-> r.err, got |-> r.got]

\* evaluate_member_list_object
evaluate_member_list_object(ctx, members) ==
    LET r == MemberLoop(ctx, members, 1, Acc(<<>>, <<>>))
    IN IF r.err # ""
       THEN ObjErr(r)
       ELSE ObjOk(r.acc.out, r.acc.calls,
                  <<extend(ctx, NoBindings, NoObj, NoObj, BuiltObj)>>)

\* evaluate_object, ObjComp: the members the iterations add, then every
\* iteration's context filled with the finished object as `this`
ObjComp(ctx, key, compspecs) ==
    LET r == evaluate_comp(ctx, compspecs, ObjCompCallback(key), Acc(<<>>, <<>>))
    IN IF r.err # ""
       THEN ObjErr(r)
       ELSE ObjOk(r.acc.out, <<>>,
                  [i \in 1 .. Len(r.acc.calls) |->
                      extend(r.acc.calls[i], NoBindings, NoObj, NoObj, BuiltObj)])

\* what names are drawn from
NameValues == {ENull, EStr(1), EStr(2), ENum(1), ETrue, EArr(<<>>)}
FieldNameChoices == {Fixed(1)} \cup {Dyn(Lit(v)) : v \in NameValues} \cup {Dyn(ErrorExpr)}
MemberChoices ==
    {Field(n, FALSE) : n \in FieldNameChoices}
        \cup {Method(Dyn(Lit(v))) : v \in {ENull, EStr(2), ENum(1)}}
        \cup {Field(Fixed(2), TRUE), BindStmt, AssertStmt}
MemberLists == SeqsUpTo(MemberChoices, MaxMembers)

\* an object body with a member list is evaluated
EvaluateMemberList ==
    /\ valPhase = "idle"
    /\ \E members \in MemberLists :
          /\ valIn' = [op |-> "MemberList", members |-> members]
          /\ valOut' = evaluate_member_list_object(TopContext, members)
    /\ valPhase' = "done"
    /\ UNCHANGED ValOthers

\* the arrays an object comprehension draws its keys from
KeySpecs ==
    {<<ForSpec("x", Lit(EArr(<<a, b>>)))>> : a, b \in NameValues}
        \cup {<<ForSpec("x", Lit(EArr(<<a, b>>))), IfSpec(Ne("x", 1))>> : a, b \in NameValues}
        \cup {<<ForSpec("x", Lit(EArr(<<EStr(1), FailingThunk>>)))>>,
              <<ForSpec("x", Lit(ENull))>>}

\* an object comprehension {[x]: ... for x in ...} is evaluated
EvaluateObjComp ==
    /\ valPhase = "idle"
    /\ \E compspecs \in KeySpecs :
          /\ valIn' = [op |-> "ObjComp", key |-> Var("x"), specs |-> compspecs]
          /\ valOut' = ObjComp(TopContext, Var("x"), compspecs)
    /\ valPhase' = "done"
    /\ UNCHANGED ValOthers

CantUseSelfOutsideOfObject == "CantUseSelfOutsideOfObject"
NoSuperFound == "NoSuperFound"
NoTopLevelObjectFound == "NoTopLevelObjectFound"

\* evaluate_member_list_object, the last statement: the context the members'
\* locals are bound over is the surrounding one with the built object as `this`
ObjectContext(ctx, built) == extend(ctx, NoBindings, NoObj, NoObj, built)

\* a variant in which `$` is the innermost object
NewDollarInnermost(ctx, this) == this

\* ctx.dollar().clone().or_else(|| this.clone())
NewDollar(ctx, this) == IF ctx.dollar # NoObj THEN ctx.dollar ELSE this

\* UnboundLocals::bind: the locals, `$`, super and this over the context of
\* the object
bind(fctx, locals, sup, this) == extend(fctx, locals, NewDollar(fctx, this), sup, this)

\* the objects of the model: an outer object, its super, the nested object
\* under construction, the object that inherits from it, and that one's super
OuterObj == "outer"
OuterSuper == "super of outer"
Heir == "heir"
NestedSuper == "super"

\* the locals of an object
LocalChoices ==
    {NoBindings, [NoBindings EXCEPT !["x"] = ENum(1)], [NoBindings EXCEPT !["y"] = EStr(1)]}

\* where an object expression is evaluated: at the top, or in a field of an
\* outer object
Surroundings ==
    {TopContext, with_var(TopContext, "x", ENum(2))}
        \cup {bind(ObjectContext(TopContext, OuterObj), locals, sup, OuterObj) :
                locals \in LocalChoices, sup \in {NoObj, OuterSuper}}

\* an object value: the object and the `this` it is read with
EObj(id, this) == [t |-> "obj", id |-> id, this |-> this]

\* evaluate, Literal(This | Super | Dollar)
EvaluateLiteral(ctx, lit) ==
    CASE lit = "This" ->
            IF ctx.this = NoObj
            THEN EErr(CantUseSelfOutsideOfObject, "")
            ELSE EOk(EObj(ctx.this, ctx.this))
      [] lit = "Super" ->
            IF ctx.super_obj = NoObj
            THEN EErr(NoSuperFound, "")
            ELSE EOk(EObj(ctx.super_obj, ctx.this))
      [] OTHER ->
            IF ctx.dollar = NoObj
            THEN EErr(NoTopLevelObjectFound, "")
            ELSE EOk(EObj(ctx.dollar, ctx.dollar))

\* a field of an object is read: its context is bound, and self, super or $
\* is evaluated in it
BindLocals ==
    /\ valPhase = "idle"
    /\ \E ctx \in Surroundings, locals \in LocalChoices, sup \in {NoObj, NestedSuper},
          this \in {BuiltObj, Heir}, lit \in {"This", "Super", "Dollar"} :
          /\ valIn' = [op |-> "bind", ctx |-> ctx, locals |-> locals, sup |-> sup,
                       this |-> this, lit |-> lit]
          /\ valOut' = LET bound == bind(ObjectContext(ctx, BuiltObj), locals, sup, this)
                       IN [ctx |-> bound, lit |-> EvaluateLiteral(bound, lit)]
    /\ valPhase' = "done"
    /\ UNCHANGED ValOthers

\* self, super or $ is evaluated where the expression stands
EvaluateLiteralHere ==
    /\ valPhase = "idle"
    /\ \E ctx \in Surroundings, lit \in {"This", "Super", "Dollar"} :
          /\ valIn' = [op |-> "literal", ctx |-> ctx, lit |-> lit]
          /\ valOut' = EvaluateLiteral(ctx, lit)
    /\ valPhase' = "done"
    /\ UNCHANGED ValOthers

\* the value is handed back
EvalReturn ==
    /\ valPhase = "done"
    /\ valPhase' = "idle"
    /\ valIn' = NoOp
    /\ valOut' = NoVal
    /\ UNCHANGED ValOthers

EvalNext ==
    \/ EvaluateArrComp
    \/ EvaluateMemberList
    \/ EvaluateObjComp
    \/ BindLocals
    \/ EvaluateLiteralHere
    \/ EvalReturn

(***************************************************************************)
(* Manifestation. A text is the sequence of its characters. What a         *)
(* manifestation does is first written down in order (the characters it    *)
(* pushes, the calls of run_assertions, the throw it ends in) and then     *)
(* run against the flags of the objects.                                   *)
(***************************************************************************)
\* elements of an array that is manifested
MaxItems == 2
\* operations on one value
MaxOps == 2

AssertionFailed == "AssertionFailed"
StreamManifestOutputIsNotAArray == "StreamManifestOutputIsNotAArray"
StreamManifestOutputCannotBeRecursed == "StreamManifestOutputCannotBeRecursed"
StreamManifestCannotNestString == "StreamManifestCannotNestString"
StringManifestOutputIsNotAString == "StringManifestOutputIsNotAString"

MValue(t, n, str, items, id, asserts) ==
    [t |-> t, n |-> n, s |-> str, items |-> items, id |-> id, asserts |-> asserts]
MNull == MValue("null", 0, <<>>, <<>>, 0, "none")
MBool(b) == MValue("bool", b, <<>>, <<>>, 0, "none")
MNum(n) == MValue("num", n, <<>>, <<>>, 0, "none")
MStr(str) == MValue("str", 0, str, <<>>, 0, "none")
MFunc == MValue("func", 0, <<>>, <<>>, 0, "none")
MArr(items) == MValue("arr", 0, <<>>, items, 0, "none")
\* an object: its identity, whether it has assertions and whether they hold, its fields
MObj(id, asserts, fields) == MValue("obj", 0, <<>>, fields, id, asserts)
NoMValue == MValue("none", 0, <<>>, <<>>, 0, "none")

ObjIds == 1 .. 3

\* the field a or b of an object: absent, visible with a value, or hidden
MFieldChoices(name, vals) ==
    {<<>>, <<FieldV(name, TRUE, MNum(1))>>} \cup {<<FieldV(name, FALSE, val)>> : val \in vals}

InnerObj == MObj(2, "pass", <<FieldV(<<"a">>, FALSE, MNum(1))>>)
EmptyObj == MObj(3, "fail", <<>>)
SpacedStr == MStr(<<"a", " ", "\"", "b">>)
\* a string that yaml_needs_quotes lets through
PlainStr == MStr(<<"b">>)

MObjs ==
    {MObj(1, asserts, a \o b) :
        asserts \in {"none", "pass", "fail"},
        a \in MFieldChoices(<<"a">>, {MNum(1), SpacedStr, PlainStr, MArr(<<MNum(1), MNum(12)>>), InnerObj}),
        b \in MFieldChoices(<<"b">>, {MNum(2), MArr(<<>>), EmptyObj})}

MArrs ==
    {MArr(items) :
        items \in SeqsUpTo({MNum(1), SpacedStr, PlainStr, MFunc, InnerObj, EmptyObj, MArr(<<>>)},
                         MaxItems)}

MValues ==
    {MNull, MBool(1), MBool(0), MNum(12), SpacedStr, PlainStr, MStr(<<>>), MFunc}
        \cup MObjs \cup MArrs

\* what a manifestation does, one step each
Ch(c) == [c |-> c, id |-> 0, a |-> ""]
T(chars) == [i \in 1 .. Len(chars) |-> Ch(chars[i])]
RunAssertionsCall(obj) == [c |-> "run_assertions", id |-> obj.id, a |-> obj.asserts]
Thrown(e) == [c |-> "throw", id |-> 0, a |-> e]
\* arr.iter() gives the i-th item: a lazy item is evaluated here
EvaluateItem(i) == [c |-> "evaluate", id |-> i, a |-> ""]
\* out.push of one finished text onto a Vec<IStr>
PushText == [c |-> "push", id |-> 0, a |-> ""]

\* write!(buf, "{}", n)
RECURSIVE Digits(_)
Digits(n) ==
    IF n < 10
    THEN <<<<"0", "1", "2", "3", "4", "5", "6", "7", "8", "9">>[n + 1]>>
    ELSE Digits(n \div 10) \o Digits(n % 10)

EscapeChar(c) ==
    CASE c = "\"" -> <<"\\", "\"">>
      [] c = "\\" -> <<"\\", "\\">>
      [] c = "\n" -> <<"\\", "n">>
      [] c = "\r" -> <<"\\", "r">>
      [] c = "\t" -> <<"\\", "t">>
      [] OTHER -> <<c>>

escape_string_json_buf(str) ==
    <<"\"">> \o Concat([i \in 1 .. Len(str) |-> EscapeChar(str[i])]) \o <<"\"">>

ManifestJsonOptions(padding, mtype, key_val_sep) ==
    [padding |-> padding, mtype |-> mtype, newline |-> <<"\n">>, key_val_sep |-> key_val_sep]

\* " ".repeat(padding)
Repeat(padding) == [i \in 1 .. padding |-> " "]

\* mtype != ManifestType::ToString && mtype != ManifestType::Minify
Breaks(options) == options.mtype \notin {"ToString", "Minify"}

\* if i != 0: the comma and what follows it
JsonSeparator(i, options) ==
    IF i = 1
    THEN <<>>
    ELSE <<",">> \o (IF options.mtype = "ToString"
                      THEN <<" ">>
                      ELSE IF options.mtype # "Minify" THEN options.newline ELSE <<>>)

\* between the brackets of an empty array or object
JsonEmpty(cur_padding, options) ==
    IF options.mtype = "Std"
    THEN <<"\n", "\n">> \o cur_padding
    ELSE IF options.mtype \in {"ToString", "Manifest"} THEN <<" ">> ELSE <<>>

RECURSIVE manifest_json_ex_buf(_, _, _)
RECURSIVE JsonItems(_, _, _, _)
RECURSIVE JsonFields(_, _, _, _)

\* for (i, item) in items.iter().enumerate()
JsonItems(items, i, cur_padding, options) ==
    IF i > Len(items)
    THEN <<>>
    ELSE T(JsonSeparator(i, options) \o cur_padding)
            \o manifest_json_ex_buf(items[i], cur_padding, options)
            \o JsonItems(items, i + 1, cur_padding, options)

\* for (i, field) in fields.into_iter().enumerate()
JsonFields(obj, i, cur_padding, options) ==
    IF i > Len(Fields(obj))
    THEN <<>>
    ELSE T(JsonSeparator(i, options) \o cur_padding
              \o escape_string_json_buf(Fields(obj)[i].name) \o options.key_val_sep)
            \o <<RunAssertionsCall(obj)>>
            \o manifest_json_ex_buf(Fields(obj)[i].val, cur_padding, options)
            \o JsonFields(obj, i + 1, cur_padding, options)

manifest_json_ex_buf(val, cur_padding, options) ==
    CASE val.t = "bool" ->
            T(IF val.n = 1 THEN <<"t", "r", "u", "e">> ELSE <<"f", "a", "l", "s", "e">>)
      [] val.t = "null" -> T(<<"n", "u", "l", "l">>)
      [] val.t = "str" -> T(escape_string_json_buf(val.s))
      [] val.t = "num" -> T(Digits(val.n))
      [] val.t = "arr" ->
            T(<<"[">>)
              \o (IF val.items # <<>>
                  THEN T(IF Breaks(options) THEN options.newline ELSE <<>>)
                          \o JsonItems(val.items, 1, cur_padding \o options.padding, options)
                          \o T(IF Breaks(options) THEN options.newline \o cur_padding ELSE <<>>)
                  ELSE T(JsonEmpty(cur_padding, options)))
              \o T(<<"]">>)
      [] val.t = "obj" ->
            <<RunAssertionsCall(val)>>
              \o T(<<"{">>)
              \o (IF Fields(val) # <<>>
                  THEN T(IF Breaks(options) THEN options.newline ELSE <<>>)
                          \o JsonFields(val, 1, cur_padding \o options.padding, options)
                          \o T(IF Breaks(options) THEN options.newline \o cur_padding ELSE <<>>)
                  ELSE T(JsonEmpty(cur_padding, options)))
              \o T(<<"}">>)
      [] OTHER -> <<Thrown(RuntimeError)>>

manifest_json_ex(val, options) == manifest_json_ex_buf(val, <<>>, options)

\* Val::to_json
to_json(val, padding) ==
    manifest_json_ex(val,
        ManifestJsonOptions(Repeat(padding), IF padding = 0 THEN "Minify" ELSE "Manifest",
                            <<":", " ">>))

\* Val::to_std_json
to_std_json(val, padding) ==
    manifest_json_ex(val, ManifestJsonOptions(Repeat(padding), "Std", <<":", " ">>))

\* Val::to_string
to_string(val) ==
    CASE val.t = "bool" ->
            T(IF val.n = 1 THEN <<"t", "r", "u", "e">> ELSE <<"f", "a", "l", "s", "e">>)
      [] val.t = "null" -> T(<<"n", "u", "l", "l">>)
      [] val.t = "str" -> T(val.s)
      [] OTHER -> manifest_json_ex(val, ManifestJsonOptions(<<>>, "ToString", <<":", " ">>))

ManifestYamlOptions(padding, arr_element_padding, quote_keys) ==
    [padding |-> padding, arr_element_padding |-> arr_element_padding,
     quote_keys |-> quote_keys]

DigitChars == {"0", "1", "2", "3", "4", "5", "6", "7", "8", "9"}
Signed(str) == IF str # <<>> /\ Head(str) \in {"+", "-"} THEN Tail(str) ELSE str
AllIn(str, S) == \A i \in 1 .. Len(str) : str[i] \in S
StartsWith(str, prefix) ==
    Len(str) >= Len(prefix) /\ SubSeq(str, 1, Len(prefix)) = prefix

\* string.parse::<i64>().is_ok()
ParsesI64(str) == Signed(str) # <<>> /\ AllIn(Signed(str), DigitChars)

\* string.parse::<f64>().is_ok(): digits with at most one point, then an exponent
Mantissa(m) ==
    /\ AllIn(m, DigitChars \cup {"."})
    /\ \E i \in 1 .. Len(m) : m[i] \in DigitChars
    /\ Cardinality({i \in 1 .. Len(m) : m[i] = "."}) <= 1
Exponent(e) ==
    e = <<>> \/ (Head(e) \in {"e", "E"} /\ ParsesI64(Tail(e)))
ParsesF64(str) ==
    \/ Signed(str) \in {<<"i", "n", "f">>, <<"n", "a", "n">>,
                        <<"i", "n", "f", "i", "n", "i", "t", "y">>}
    \/ \E k \in 0 .. Len(Signed(str)) :
          /\ Mantissa(SubSeq(Signed(str), 1, k))
          /\ Exponent(SubSeq(Signed(str), k + 1, Len(Signed(str))))

YamlWords ==
    {<<"y", "e", "s">>, <<"Y", "e", "s">>, <<"Y", "E", "S">>, <<"n", "o">>, <<"N", "o">>,
     <<"N", "O">>, <<"T", "r", "u", "e">>, <<"T", "R", "U", "E">>, <<"t", "r", "u", "e">>,
     <<"F", "a", "l", "s", "e">>, <<"F", "A", "L", "S", "E">>, <<"f", "a", "l", "s", "e">>,
     <<"o", "n">>, <<"O", "n">>, <<"O", "N">>, <<"o", "f", "f">>, <<"O", "f", "f">>,
     <<"O", "F", "F">>, <<"n", "u", "l", "l">>, <<"N", "u", "l", "l">>,
     <<"N", "U", "L", "L">>, <<"~">>}

yaml_needs_quotes(string) ==
    \/ string = <<>>
    \/ Head(string) = " " \/ string[Len(string)] = " "
    \/ Head(string) \in {"&", "*", "?", "|", "-", "<", ">", "=", "!", "%", "@"}
    \/ \E i \in 1 .. Len(string) :
          string[i] \in {":", "{", "}", "[", "]", ",", "#", "\"", "'", "\\", "\t",
                         "\n", "\r"}
    \/ string \in YamlWords
    \/ /\ AllIn(string, DigitChars \cup {"-"})
       /\ Cardinality({i \in 1 .. Len(string) : string[i] = "-"}) = 2
    \/ Head(string) = "."
    \/ StartsWith(string, <<"0", "x">>)
    \/ ParsesI64(string)
    \/ ParsesF64(string)

\* s.split('\n'), every line after a line break and the padding
RECURSIVE BlockLines(_, _)
BlockLines(str, lead) ==
    IF \E i \in 1 .. Len(str) : str[i] = "\n"
    THEN LET i == CHOOSE i \in 1 .. Len(str) :
                      str[i] = "\n" /\ \A j \in 1 .. i - 1 : str[j] # "\n"
         IN lead \o SubSeq(str, 1, i - 1) \o BlockLines(SubSeq(str, i + 1, Len(str)), lead)
    ELSE lead \o str

\* a key or a string, quoted when it has to be
YamlKey(str, options) ==
    IF ~options.quote_keys /\ ~yaml_needs_quotes(str)
    THEN str
    ELSE escape_string_json_buf(str)

\* ObjValue::is_empty
IsEmptyObj(o) == o.items = <<>>

NonEmptyArr(val) == val.t = "arr" /\ val.items # <<>>
NonEmptyObj(val) == val.t = "obj" /\ ~IsEmptyObj(val)

RECURSIVE manifest_yaml_ex_buf(_, _, _)
RECURSIVE YamlItems(_, _, _, _)
RECURSIVE YamlFields(_, _, _, _)

\* for (i, item) in a.iter().enumerate()
YamlItems(items, i, cur_padding, options) ==
    IF i > Len(items)
    THEN <<>>
    ELSE T((IF i # 1 THEN <<"\n">> \o cur_padding ELSE <<>>)
              \o <<"-">>
              \o (IF NonEmptyArr(items[i])
                  THEN <<"\n">> \o cur_padding \o options.padding
                  ELSE <<" ">>))
            \o manifest_yaml_ex_buf(items[i],
                                    IF NonEmptyArr(items[i]) \/ NonEmptyObj(items[i])
                                    THEN cur_padding \o options.padding
                                    ELSE cur_padding,
                                    options)
            \o YamlItems(items, i + 1, cur_padding, options)

\* for (i, key) in o.fields().iter().enumerate()
YamlFields(o, i, cur_padding, options) ==
    IF i > Len(Fields(o))
    THEN <<>>
    ELSE LET item == Fields(o)[i].val
             extra == IF NonEmptyArr(item)
                      THEN options.arr_element_padding
                      ELSE IF NonEmptyObj(item) THEN options.padding ELSE <<>>
         IN T((IF i # 1 THEN <<"\n">> \o cur_padding ELSE <<>>)
                 \o YamlKey(Fields(o)[i].name, options)
                 \o <<":">>)
               \o <<RunAssertionsCall(o)>>
               \o T(IF NonEmptyArr(item) \/ NonEmptyObj(item)
                    THEN <<"\n">> \o cur_padding \o extra
                    ELSE <<" ">>)
               \o manifest_yaml_ex_buf(item, cur_padding \o extra, options)
               \o YamlFields(o, i + 1, cur_padding, options)

manifest_yaml_ex_buf(val, cur_padding, options) ==
    CASE val.t = "bool" ->
            T(IF val.n = 1 THEN <<"t", "r", "u", "e">> ELSE <<"f", "a", "l", "s", "e">>)
      [] val.t = "null" -> T(<<"n", "u", "l", "l">>)
      [] val.t = "str" ->
            T(IF val.s = <<>>
              THEN <<"\"", "\"">>
              ELSE IF val.s[Len(val.s)] = "\n"
                   THEN <<"|">> \o BlockLines(SubSeq(val.s, 1, Len(val.s) - 1),
                                              <<"\n">> \o cur_padding \o options.padding)
                   ELSE YamlKey(val.s, options))
      [] val.t = "num" -> T(Digits(val.n))
      [] val.t = "arr" ->
            IF val.items = <<>>
            THEN T(<<"[", "]">>)
            ELSE YamlItems(val.items, 1, cur_padding, options)
      [] val.t = "obj" ->
            IF IsEmptyObj(val)
            THEN T(<<"{", "}">>)
            ELSE YamlFields(val, 1, cur_padding, options)
      [] OTHER -> <<Thrown(RuntimeError)>>

manifest_yaml_ex(val, options) == manifest_yaml_ex_buf(val, <<>>, options)

\* Val::to_yaml
to_yaml(val, padding) ==
    manifest_yaml_ex(val, ManifestYamlOptions(Repeat(padding), Repeat(padding), FALSE))

\* ManifestFormat, outermost first: YamlStream(Box<ManifestFormat>) is two layers
Layer(k, padding) == [k |-> k, padding |-> padding]
ManifestFormats ==
    {<<Layer("Json", 0)>>, <<Layer("Json", 2)>>, <<Layer("Yaml", 2)>>, <<Layer("ToString", 0)>>,
     <<Layer("String", 0)>>,
     <<Layer("YamlStream", 0), Layer("Yaml", 2)>>,
     <<Layer("YamlStream", 0), Layer("Json", 0)>>,
     <<Layer("YamlStream", 0), Layer("String", 0)>>,
     <<Layer("YamlStream", 0), Layer("YamlStream", 0), Layer("Json", 0)>>}

\* a variant that does not end the marker line
DocumentStartBare == <<"-", "-", "-">>

\* out.push_str("---\n")
DocumentStart == <<"-", "-", "-", "\n">>

\* a variant that lets a String inner format through
StreamFormatCheckStreamOnly(format) ==
    IF Head(format).k = "YamlStream" THEN StreamManifestOutputCannotBeRecursed ELSE ""

\* match format as &ManifestFormat: the inner formats a stream refuses
StreamFormatCheck(format) ==
    IF Head(format).k = "YamlStream"
    THEN StreamManifestOutputCannotBeRecursed
    ELSE IF Head(format).k = "String" THEN StreamManifestCannotNestString ELSE ""

RECURSIVE manifest(_, _)
RECURSIVE StreamItems(_, _, _)
RECURSIVE ManifestedItems(_, _, _)

\* for v in arr.iter()
StreamItems(items, i, format) ==
    IF i > Len(items)
    THEN <<>>
    ELSE <<EvaluateItem(i)>> \o T(DocumentStart) \o manifest(items[i], format)
            \o T(<<"\n">>) \o StreamItems(items, i + 1, format)

\* Val::manifest
manifest(val, ty) ==
    CASE Head(ty).k = "YamlStream" ->
            IF val.t # "arr"
            THEN <<Thrown(StreamManifestOutputIsNotAArray)>>
            ELSE IF StreamFormatCheck(Tail(ty)) # ""
                 THEN <<Thrown(StreamFormatCheck(Tail(ty)))>>
                 ELSE IF val.items # <<>>
                      THEN StreamItems(val.items, 1, Tail(ty)) \o T(<<".", ".", ".">>)
                      ELSE <<>>
      [] Head(ty).k = "Yaml" -> to_yaml(val, Head(ty).padding)
      [] Head(ty).k = "Json" -> to_json(val, Head(ty).padding)
      [] Head(ty).k = "ToString" -> to_string(val)
      [] OTHER ->
            IF val.t = "str" THEN T(val.s) ELSE <<Thrown(StringManifestOutputIsNotAString)>>

\* for i in arr.iter() { out.push(i?.manifest(ty)?) }
ManifestedItems(items, i, ty) ==
    IF i > Len(items)
    THEN <<>>
    ELSE <<EvaluateItem(i)>> \o manifest(items[i], ty) \o <<PushText>>
            \o ManifestedItems(items, i + 1, ty)

\* Val::manifest_stream: the texts of the items of an array, one each
manifest_stream(val, ty) ==
    IF val.t # "arr"
    THEN <<Thrown(StreamManifestOutputIsNotAArray)>>
    ELSE ManifestedItems(val.items, 1, ty)

NoMop == [op |-> "none", ty |-> <<>>, field |-> <<>>, quote_keys |-> FALSE]
NoMOut == [kind |-> "none", text |-> <<>>, err |-> ""]

ManStart ==
    /\ mval = NoMValue
    /\ assertionsRan = {}
    /\ assertRuns = [id \in ObjIds |-> 0]
    /\ mop = NoMop
    /\ mlog = <<>>
    /\ mout = NoMOut
    /\ mops = 0

\* ObjValue::run_assertions: the object is remembered
Remember(ran, id) == ran \cup {id}

\* the steps against the flags of the objects: run_assertions executes the
\* assertions of an object the first time only and fails if they do; the steps
\* end at the first failure
RunSteps(steps, ran, runs) ==
    LET n == Len(steps)
        Calls(i) == steps[i].c = "run_assertions"
        Fails(i) == Calls(i) /\ steps[i].a = "fail"
        Throws(i) == steps[i].c = "throw"
        stops == {i \in 1 .. n : Fails(i) \/ Throws(i)}
        stop == IF stops = {} THEN n + 1
                ELSE CHOOSE i \in stops : \A j \in stops : i <= j
        last == IF stop <= n /\ Fails(stop) THEN stop ELSE stop - 1
        Executed(i) ==
            /\ Calls(i)
            /\ steps[i].a # "none"
            /\ steps[i].id \notin ran
            /\ \A j \in 1 .. i - 1 : Calls(j) => steps[j].id # steps[i].id
        kept == SelectSeq([i \in 1 .. last |-> i],
                          LAMBDA i : IF Calls(i) THEN Executed(i) ELSE TRUE)
        called == {steps[i].id : i \in {j \in 1 .. last : Calls(j)}}
    IN [ran |-> UNION {Remember(ran, id) : id \in called} \cup ran,
        runs |-> [id \in ObjIds |->
                    IF \E i \in 1 .. last : Executed(i) /\ steps[i].id = id
                    THEN runs[id] + 1 ELSE runs[id]],
        log |-> [k \in 1 .. Len(kept) |-> steps[kept[k]]],
        err |-> IF stop > n THEN ""
                ELSE IF Fails(stop) THEN AssertionFailed ELSE steps[stop].a]

\* the characters among the steps
TextOf(steps) ==
    LET chars == SelectSeq(steps, LAMBDA st : st.c \notin {"run_assertions", "throw", "evaluate", "push"})
    IN [i \in 1 .. Len(chars) |-> chars[i].c]

\* an operation does its steps and returns the text, or the error and no text
Operate(steps) ==
    LET r == RunSteps(steps, assertionsRan, assertRuns)
    IN /\ assertionsRan' = r.ran
       /\ assertRuns' = r.runs
       /\ mlog' = r.log
       /\ mout' = IF r.err = ""
                  THEN [kind |-> "ok", text |-> TextOf(r.log), err |-> ""]
                  ELSE [kind |-> "err", text |-> <<>>, err |-> r.err]
       /\ mops' = mops + 1

\* the program builds a value
Build ==
    /\ mval = NoMValue
    /\ mval' \in MValues
    /\ UNCHANGED <<assertionsRan, assertRuns, mop, mlog, mout, mops>>
    /\ UNCHANGED ManOthers

\* Val::manifest in one of the formats
Manifest ==
    /\ mval # NoMValue
    /\ mops < MaxOps
    /\ \E ty \in ManifestFormats :
          /\ mop' = [op |-> "manifest", ty |-> ty, field |-> <<>>, quote_keys |-> FALSE]
          /\ Operate(manifest(mval, ty))
    /\ UNCHANGED mval
    /\ UNCHANGED ManOthers

\* Val::manifest_stream with one of the formats for the items
ManifestStream ==
    /\ mval # NoMValue
    /\ mops < MaxOps
    /\ \E ty \in ManifestFormats :
          /\ mop' = [op |-> "manifest_stream", ty |-> ty, field |-> <<>>, quote_keys |-> FALSE]
          /\ Operate(manifest_stream(mval, ty))
    /\ UNCHANGED mval
    /\ UNCHANGED ManOthers

\* manifest_yaml_ex with the caller's options, keys quoted or not
ManifestYamlEx ==
    /\ mval # NoMValue
    /\ mops < MaxOps
    /\ \E quote_keys \in BOOLEAN :
          /\ mop' = [op |-> "yaml_ex", ty |-> <<>>, field |-> <<>>, quote_keys |-> quote_keys]
          /\ Operate(manifest_yaml_ex(mval,
                                      ManifestYamlOptions(Repeat(2), Repeat(2), quote_keys)))
    /\ UNCHANGED mval
    /\ UNCHANGED ManOthers

\* std.manifestJson
ToStdJson ==
    /\ mval # NoMValue
    /\ mops < MaxOps
    /\ mop' = [op |-> "std_json", ty |-> <<>>, field |-> <<>>, quote_keys |-> FALSE]
    /\ Operate(to_std_json(mval, 2))
    /\ UNCHANGED mval
    /\ UNCHANGED ManOthers

\* ObjValue::get of a field: the assertions, then the field
GetField ==
    /\ mval.t = "obj"
    /\ mops < MaxOps
    /\ \E name \in {<<"a">>, <<"b">>} :
          mop' = [op |-> "get", ty |-> <<>>, field |-> name, quote_keys |-> FALSE]
    /\ Operate(<<RunAssertionsCall(mval)>>)
    /\ UNCHANGED mval
    /\ UNCHANGED ManOthers

ManNext ==
    \/ Build
    \/ Manifest
    \/ ManifestStream
    \/ ManifestYamlEx
    \/ ToStdJson
    \/ GetField

(***************************************************************************)
(* Manifestation: assertions, minified JSON, YAML streams.                 *)
(***************************************************************************)
\* the last operation manifested the object the program built, as JSON or YAML
ObjManifested ==
    /\ mval.t = "obj"
    /\ \/ mop.op = "std_json"
       \/ mop.op = "manifest" /\ Head(mop.ty).k \in {"Json", "Yaml", "ToString"}

\* C18: in every format, an object's assertions have run before its
\* manifestation gives any text (so an object whose assertions fail has no
\* manifestation, visible fields or not), and over all the manifestations and
\* field accesses of an object they are executed at most once.
C18_AssertionsFirst ==
    /\ \A id \in ObjIds : assertRuns[id] <= 1
    /\ (ObjManifested /\ mval.asserts # "none") =>
          /\ assertRuns[mval.id] = 1
          /\ mval.asserts = "fail" => (mout.kind = "err" /\ mout.text = <<>>)

\* an object whose assertions fail came out as YAML text and they never ran
C18_YamlSkipsAssertions ==
    /\ ObjManifested
    /\ mval.asserts = "fail"
    /\ Fields(mval) = <<>>
    /\ mout.kind = "ok"
    /\ assertRuns[mval.id] = 0

\* the last operation was Val::to_json with padding 0 and gave a text
Minified ==
    /\ mop.op = "manifest"
    /\ mop.ty = <<Layer("Json", 0)>>
    /\ mout.kind = "ok"

\* the positions of the white space outside the string literals of a JSON text
RECURSIVE OutsideSpace(_, _, _, _)
OutsideSpace(text, i, inStr, esc) ==
    IF i > Len(text)
    THEN {}
    ELSE IF inStr
         THEN IF esc
              THEN OutsideSpace(text, i + 1, TRUE, FALSE)
              ELSE OutsideSpace(text, i + 1, text[i] # "\"", text[i] = "\\")
         ELSE (IF text[i] \in {" ", "\n", "\t", "\r"} THEN {i} ELSE {})
                 \cup OutsideSpace(text, i + 1, text[i] = "\"", FALSE)

\* {a: 1, b: 2}, whatever its assertions
IsS2(val) ==
    /\ val.t = "obj"
    /\ val.items = <<FieldV(<<"a">>, FALSE, MNum(1)), FieldV(<<"b">>, FALSE, MNum(2))>>

\* C19: minified JSON (Val::to_json with padding 0) has no white space outside
\* its string literals, and {a: 1, b: self.a + 1} comes out as {"a":1,"b":2}.
C19_Minify ==
    Minified =>
        /\ OutsideSpace(mout.text, 1, FALSE, FALSE) = {}
        /\ IsS2(mval) =>
              mout.text = <<"{", "\"", "a", "\"", ":", "1", ",", "\"", "b", "\"", ":", "2", "}">>

\* S2 comes out with a space after each colon
C19_SpaceAfterColon ==
    /\ Minified
    /\ IsS2(mval)
    /\ mout.text = <<"{", "\"", "a", "\"", ":", " ", "1", ",",
                     "\"", "b", "\"", ":", " ", "2", "}">>

\* the last operation was a YAML stream of an array and gave a text
Streamed ==
    /\ mop.op = "manifest"
    /\ Head(mop.ty).k = "YamlStream"
    /\ mval.t = "arr"
    /\ mout.kind = "ok"

\* for each item the line ---, the item and a line break; then ...
Documents(items, format) ==
    Concat([i \in 1 .. Len(items) |->
                <<"-", "-", "-", "\n">> \o TextOf(manifest(items[i], format)) \o <<"\n">>])
        \o <<".", ".", ".">>

\* [1, {a: 1}] as a stream of YAML
IsS10 ==
    /\ mval.t = "arr"
    /\ Len(mval.items) = 2
    /\ mval.items[1] = MNum(1)
    /\ mval.items[2] = InnerObj
    /\ mop.ty = <<Layer("YamlStream", 0), Layer("Yaml", 2)>>

S10Text ==
    <<"-", "-", "-", "\n", "1", "\n", "-", "-", "-", "\n", "a", ":", " ", "1", "\n",
      ".", ".", ".">>

\* C20, as the specification words it: the YAML stream of any array is, for
\* each item in order, the line --- followed by the item's manifestation and a
\* line break, and then a final line of three dots.
C20_AsStated ==
    Streamed =>
        /\ mout.text = Documents(mval.items, Tail(mop.ty))
        /\ IsS10 => mout.text = S10Text

\* C20: the YAML stream of an array that is not empty is, for each item in
\* order, the line --- followed by the item's manifestation and a line break,
\* and then a final line of three dots; the stream of the empty array is the
\* empty text, without that final line.
C20_YamlStream ==
    Streamed =>
        /\ mval.items # <<>> => mout.text = Documents(mval.items, Tail(mop.ty))
        /\ mval.items = <<>> => mout.text = <<>>
        /\ IsS10 => mout.text = S10Text

\* [1, {a: 1}] came out as the stream of S10
C20_Witness ==
    /\ Streamed
    /\ IsS10
    /\ mout.text = S10Text

(***************************************************************************)
(* Manifestation: what a YAML stream refuses.                              *)
(***************************************************************************)
\* the last operation was Val::manifest with a YamlStream format
StreamOp ==
    /\ mop.op = "manifest"
    /\ Head(mop.ty).k = "YamlStream"

\* the last operation failed with e, gave no text, evaluated no item and ran
\* no assertion
Refused(e) ==
    /\ mout.kind = "err"
    /\ mout.err = e
    /\ mout.text = <<>>
    /\ mlog = <<>>

\* C21: the YAML stream of a value that is not an array fails with
\* StreamManifestOutputIsNotAArray (Val::manifest_stream likewise), the stream
\* of an array with a YAML stream as inner format fails with
\* StreamManifestOutputCannotBeRecursed and with String as inner format with
\* StreamManifestCannotNestString; each time there is no output and no item
\* of the array has been evaluated.
C21_StreamErrors ==
    /\ (StreamOp /\ mval.t # "arr") => Refused(StreamManifestOutputIsNotAArray)
    /\ (StreamOp /\ mval.t = "arr" /\ Head(Tail(mop.ty)).k = "YamlStream") =>
          Refused(StreamManifestOutputCannotBeRecursed)
    /\ (StreamOp /\ mval.t = "arr" /\ Head(Tail(mop.ty)).k = "String") =>
          Refused(StreamManifestCannotNestString)
    /\ (mop.op = "manifest_stream" /\ mval.t # "arr") =>
          Refused(StreamManifestOutputIsNotAArray)

\* an array of two items, the first a string, was refused as a stream of
\* strings before any item was looked at
C21_Witness ==
    /\ StreamOp
    /\ mval.t = "arr"
    /\ Len(mval.items) = 2
    /\ mval.items[1].t = "str"
    /\ Head(Tail(mop.ty)).k = "String"
    /\ Refused(StreamManifestCannotNestString)

(***************************************************************************)
(* Object bodies: the names of the fields.                                 *)
(***************************************************************************)
\* the value a member's name expression has: the names drawn are literals
NameValue(member) ==
    IF member.name.f = "fixed" THEN EStr(member.name.n) ELSE member.name.expr.v

\* the members of a list that have a name, and their names
Named(members) == SelectSeq(members, LAMBDA m : m.m \in {"field", "method"})
NameValuesOf(members) == [i \in 1 .. Len(Named(members)) |-> NameValue(Named(members)[i])]

\* the keys an object comprehension of the model meets: the items of its
\* array that pass its condition
KeysOf(specs) ==
    SelectSeq(Head(specs).expr.v.items,
              LAMBDA v : Len(specs) = 1 \/ v # ENum(Head(Tail(specs)).expr.k))

\* no name expression throws, and no two names are the same string
Clean(names) ==
    /\ \A i \in 1 .. Len(names) : names[i].t \notin {"fail", "unbound"}
    /\ \A i, j \in 1 .. Len(names) : (names[i].t = "str" /\ names[i] = names[j]) => i = j

\* the names a construction met, for the two kinds of object body
NamesMet ==
    IF valIn.op = "MemberList" THEN NameValuesOf(valIn.members) ELSE KeysOf(valIn.specs)

\* an object body whose names are all values was evaluated
NamesEvaluated ==
    /\ valPhase = "done"
    /\ valIn.op \in {"MemberList", "ObjComp"}
    /\ valIn.op = "MemberList" => \A i \in 1 .. Len(valIn.members) :
                                      valIn.members[i].name.expr.e = "lit"
    /\ valIn.op = "ObjComp" => Head(valIn.specs).expr.v.t = "arr"
    /\ Clean(NamesMet)

\* C22: in a member list and in an object comprehension alike, a name that
\* evaluates to null adds no member and raises no error, a string name adds the
\* member, and any other value fails with FieldMustBeStringGot.
C22_FieldNames ==
    NamesEvaluated =>
        IF \A i \in 1 .. Len(NamesMet) : NamesMet[i].t \in {"null", "str"}
        THEN /\ valOut.kind = "ok"
             /\ LET strs == SelectSeq(NamesMet, LAMBDA v : v.t = "str")
                IN /\ Len(valOut.members) = Len(strs)
                   /\ \A i \in 1 .. Len(strs) : valOut.members[i].name = strs[i].v
        ELSE /\ valOut.kind = "err"
             /\ valOut.err = FieldMustBeStringGot

\* a member list with a number for a name failed with another error
C22_TypeErrorInMemberList ==
    /\ NamesEvaluated
    /\ valIn.op = "MemberList"
    /\ \E i \in 1 .. Len(NamesMet) : NamesMet[i].t = "num"
    /\ valOut.kind = "err"
    /\ valOut.err = TypeErrorExpectedGot

(***************************************************************************)
(* Comprehensions: the combinations the continuation is called with.       *)
(***************************************************************************)
\* the items an array of the model has
MaxArrLen == 3

\* a combination picks an item (by position) at every `for` and 0 at every `if`
Combinations(specs) == [1 .. Len(specs) -> 0 .. MaxArrLen]

\* the contexts along a combination: after k specs, the loop variables of the
\* first k specs are bound to the items picked
ContextsAlong(specs, p) ==
    LET c[k \in 0 .. Len(specs)] ==
            IF k = 0
            THEN TopContext
            ELSE LET driver == Evaluate(c[k - 1], specs[k].expr)
                 IN IF /\ specs[k].s = "for"
                       /\ driver.kind = "ok"
                       /\ driver.val.t = "arr"
                       /\ p[k] \in 1 .. Len(driver.val.items)
                    THEN [c[k - 1] EXCEPT !.vars[specs[k].var] = driver.val.items[p[k]]]
                    ELSE c[k - 1]
    IN c

\* the k-th spec lets the combination through: the item picked is there, the
\* condition is true
Passes(specs, p, k) ==
    LET r == Evaluate(ContextsAlong(specs, p)[k - 1], specs[k].expr)
    IN /\ r.kind = "ok"
       /\ IF specs[k].s = "for"
          THEN /\ r.val.t = "arr"
               /\ p[k] \in 1 .. Len(r.val.items)
               /\ r.val.items[p[k]].t # "fail"
          ELSE p[k] = 0 /\ r.val = ETrue

\* the k-th spec cannot be evaluated where the combination has come to
Fails(specs, p, k) ==
    LET r == Evaluate(ContextsAlong(specs, p)[k - 1], specs[k].expr)
    IN \/ r.kind = "err"
       \/ IF specs[k].s = "for"
          THEN r.val.t # "arr" \/ \E i \in 1 .. Len(r.val.items) : r.val.items[i].t = "fail"
          ELSE r.val.t # "bool"

\* the k-th spec is a `for` over a value that is not an array
NotAnArray(specs, p, k) ==
    LET r == Evaluate(ContextsAlong(specs, p)[k - 1], specs[k].expr)
    IN specs[k].s = "for" /\ r.kind = "ok" /\ r.val.t # "arr"

PassesUpTo(specs, p, k) == \A j \in 1 .. k : Passes(specs, p, j)

\* the combinations that pass every spec, and their order: the earlier specs
\* are the outer loops
Passing(specs) == {p \in Combinations(specs) : PassesUpTo(specs, p, Len(specs))}
Before(p, q) ==
    \E k \in DOMAIN p : p[k] < q[k] /\ \A j \in 1 .. k - 1 : p[j] = q[j]
Rank(specs, p) == 1 + Cardinality({q \in Passing(specs) : Before(q, p)})
ExpectedCalls(specs) ==
    [n \in 1 .. Cardinality(Passing(specs)) |->
        LET p == CHOOSE q \in Passing(specs) : Rank(specs, q) = n
        IN ContextsAlong(specs, p)[Len(specs)]]

\* the places where the evaluation of the specs can fail
Troubles(specs) ==
    {<<p, k>> \in Combinations(specs) \X (1 .. Len(specs)) :
        PassesUpTo(specs, p, k - 1) /\ Fails(specs, p, k)}

\* the item expression has a value for every combination that passes
ItemsEvaluate(expr, specs) ==
    \A p \in Passing(specs) : Evaluate(ContextsAlong(specs, p)[Len(specs)], expr).kind = "ok"

\* [x * 2 for x in [1,2,3] if x != 2]
IsS6 ==
    /\ valIn.expr = Mul("x", 2)
    /\ valIn.specs = <<ForSpec("x", Lit(OneTwoThree)), IfSpec(Ne("x", 2))>>

\* C23: a comprehension calls its continuation once for every combination of
\* `for` items that passes all `if` specs, in the order of the arrays with the
\* earlier `for` specs as the outer loops, each time with the context extended
\* by the loop variables; a `for` over a value that is not an array fails with
\* InComprehensionCanOnlyIterateOverArray; [x * 2 for x in [1,2,3] if x != 2]
\* is [2, 6].
C23_Comprehension ==
    ValDone("ArrComp") =>
        /\ (Troubles(valIn.specs) = {} /\ ItemsEvaluate(valIn.expr, valIn.specs)) =>
              /\ valOut.kind = "ok"
              /\ valOut.calls = ExpectedCalls(valIn.specs)
              /\ valOut.val.items =
                    [n \in 1 .. Len(valOut.calls) |-> Evaluate(valOut.calls[n], valIn.expr).val]
        /\ valOut.kind = "ok" => valOut.calls = ExpectedCalls(valIn.specs)
        /\ ( /\ Troubles(valIn.specs) # {}
             /\ \A t \in Troubles(valIn.specs) : NotAnArray(valIn.specs, t[1], t[2])
             /\ ItemsEvaluate(valIn.expr, valIn.specs) ) =>
              /\ valOut.kind = "err"
              /\ valOut.err = InComprehensionCanOnlyIterateOverArray
        /\ IsS6 => valOut.kind = "ok" /\ valOut.val.items = <<ENum(2), ENum(6)>>

\* two loops, the inner one over the outer one's item, and a condition: the
\* continuation was called for (x, y) = ([1,2], 2) and ([3], 3)
C23_Witness ==
    /\ ValDone("ArrComp")
    /\ valIn.specs = <<ForSpec("x", Lit(Nested)), ForSpec("y", Var("x"))>>
    /\ valIn.expr = Mul("y", 2)
    /\ valOut.kind = "ok"
    /\ Len(valOut.calls) = 3
    /\ valOut.val.items = <<ENum(2), ENum(4), ENum(6)>>

(***************************************************************************)
(* The object slots of a context: self, super and $.                       *)
(***************************************************************************)
\* what a literal gives in a context, slot by slot
SlotOf(ctx, lit) ==
    CASE lit = "This" -> ctx.this
      [] lit = "Super" -> ctx.super_obj
      [] OTHER -> ctx.dollar
SlotError(lit) ==
    CASE lit = "This" -> CantUseSelfOutsideOfObject
      [] lit = "Super" -> NoSuperFound
      [] OTHER -> NoTopLevelObjectFound

\* the literal failed with its error exactly if its slot is unset, and gave
\* the slot's object otherwise
LiteralFollowsSlot(ctx, lit, r) ==
    IF SlotOf(ctx, lit) = NoObj
    THEN r.kind = "err" /\ r.err = SlotError(lit)
    ELSE r.kind = "ok" /\ r.val.t = "obj" /\ r.val.id = SlotOf(ctx, lit)

\* C24: in the context bound for an object's fields, `$` is the outermost
\* enclosing object: a `dollar` of the surrounding context is kept, and without
\* one `dollar` is the object being bound (`this`); self, super and $ fail with
\* CantUseSelfOutsideOfObject, NoSuperFound and NoTopLevelObjectFound when
\* their slot is unset, and give the slot's object otherwise.
C24_Dollar ==
    /\ ValDone("bind") =>
          /\ valIn.ctx.dollar # NoObj => valOut.ctx.dollar = valIn.ctx.dollar
          /\ valIn.ctx.dollar = NoObj => valOut.ctx.dollar = valIn.this
          /\ valOut.ctx.this = valIn.this
          /\ LiteralFollowsSlot(valOut.ctx, valIn.lit, valOut.lit)
    /\ ValDone("literal") => LiteralFollowsSlot(valIn.ctx, valIn.lit, valOut)

\* `$` in an object nested in a field of an outer object and inherited from:
\* it is the outer object, and neither the nested one nor its heir
C24_Witness ==
    /\ ValDone("bind")
    /\ valIn.ctx.dollar = OuterObj
    /\ valIn.this = Heir
    /\ valIn.lit = "Dollar"
    /\ valOut.ctx.this = Heir
    /\ valOut.lit.kind = "ok"
    /\ valOut.lit.val.id = OuterObj

(***************************************************************************)
(* Arrays: a concatenation is its left half followed by its right half.    *)
(***************************************************************************)
\* the elements of an array as they are stored, left to right
RECURSIVE Elements(_)
Elements(a) ==
    IF a.rep = "ext" THEN Elements(a.items[1]) \o Elements(a.items[2]) ELSE a.items

\* an element read: its value, or the failure of its thunk
Read(x) == IF x.t = "fail" THEN Failure ELSE Some(x)

\* C25: for a concatenation of (left, right), at any nesting depth: len is
\* len(left) + len(right); get(i) and get_lazy(i) give left's element i when
\* i < len(left), right's element i - len(left) when len(left) <= i < len, and
\* no element when i >= len; iter and evaluated yield the elements of left
\* followed by those of right.
C25_Concatenation ==
    ValDone("concat") =>
        LET left == Elements(valIn.a.items[1])
            right == Elements(valIn.a.items[2])
            all == left \o right
        IN /\ valOut.len = Len(left) + Len(right)
           /\ \A i \in 0 .. valOut.len + 1 :
                 /\ i < Len(left) =>
                       valOut.get[i] = Read(left[i + 1]) /\ valOut.get_lazy[i] = Some(left[i + 1])
                 /\ (Len(left) <= i /\ i < valOut.len) =>
                       /\ valOut.get[i] = Read(right[i - Len(left) + 1])
                       /\ valOut.get_lazy[i] = Some(right[i - Len(left) + 1])
                 /\ i >= valOut.len => valOut.get[i] = None /\ valOut.get_lazy[i] = None
           /\ valOut.iter = [n \in 1 .. Len(all) |-> Read(all[n])]
           /\ (\A n \in 1 .. Len(all) : all[n].t # "fail") =>
                 valOut.evaluated = [kind |-> "ok", items |-> all]
           /\ (\E n \in 1 .. Len(all) : all[n].t = "fail") => valOut.evaluated.kind = "err"

\* a concatenation whose left half is itself a concatenation of two vectors,
\* read at the first index of its right half
C25_Witness ==
    /\ ValDone("concat")
    /\ valIn.a.items[1].rep = "ext"
    /\ Len(Elements(valIn.a.items[1])) = 3
    /\ Len(Elements(valIn.a.items[2])) = 1
    /\ valOut.len = 4
    /\ valOut.get[3] = Some(Prim("num", 5))
    /\ valOut.evaluated.kind = "ok"

(***************************************************************************)
(* Function calls: the parameter reported as not bound.                    *)
(***************************************************************************)
\* argument binding has returned
Bound == callPhase = "done" /\ callIn.fn \in {"function", "builtin"}

\* the parameters of the call that have no default and are bound by neither a
\* positional nor a named argument
LeftUnbound ==
    {i \in 1 .. Len(callIn.params) :
        /\ callIn.params[i].default = NoExpr
        /\ i > callIn.args.unnamed
        /\ \A k \in 1 .. Len(callIn.args.named) : callIn.args.named[k] # ParamName(callIn.params, i)}

\* C26: whenever argument binding (parse_function_call or parse_builtin_call)
\* fails with FunctionParameterNotBoundInCall(name), name is the name of a
\* parameter that has no default and was bound by neither a positional nor a
\* named argument.
C26_NotBoundName ==
    (Bound /\ callOut.res.kind = "err" /\ callOut.res.err = FunctionParameterNotBoundInCall) =>
        \E i \in LeftUnbound : ParamName(callIn.params, i) = callOut.res.name

\* f(a = 1, b) called as f(): the parameter reported is a, which has a default
C26_DefaultReported ==
    /\ Bound
    /\ Len(callIn.params) = 2
    /\ callIn.args.unnamed = 0 /\ callIn.args.named = <<>>
    /\ callIn.params[1].named /\ callIn.params[1].default # NoExpr
    /\ callIn.params[2].named /\ callIn.params[2].default = NoExpr
    /\ callOut.res.err = FunctionParameterNotBoundInCall
    /\ callOut.res.name = 1

\* C27: with pairwise distinct parameter names, argument binding returns a
\* context or an error for every combination of positional and named
\* arguments: the unreachable!() after the search for the unbound parameter is
\* never reached, i.e. whenever the filled count differs from the parameter
\* count the search finds a parameter.
C27_SearchFinds ==
    Bound =>
        /\ callOut.res.kind \in {"ok", "err"}
        /\ callOut.res.err # "unreachable"
        /\ (callOut.res.kind = "err" /\ callOut.res.err = FunctionParameterNotBoundInCall) =>
              LeftUnbound # {}

\* f(a, b) called as f(b = ...): the search passes over b, which is named, and
\* finds a
C27_Witness ==
    /\ Bound
    /\ Len(callIn.params) = 2
    /\ callIn.args.unnamed = 0
    /\ callIn.args.named = <<2>>
    /\ callOut.res.err = FunctionParameterNotBoundInCall
    /\ callOut.res.name = 1
    /\ 1 \in LeftUnbound

(***************************************************************************)
(* Properties of LazyVal::evaluate: the cell when a call returns.          *)
(***************************************************************************)
\* the evaluate call on top of the stack returns in this step
Returns == Len(stack') < Len(stack)
\* the producer of t is running: a frame of t is past the first match
ProducerRunning(st, t) ==
    \E i \in 1 .. Len(st) : st[i].t = t /\ st[i].pc \in {"get", "wait", "store"}
\* the call found its thunk Pending and gave RecursiveLazyValueEvaluation at once
ReentrantReturn ==
    /\ Top.pc = "match"
    /\ lazy[Top.t].tag = "Pending"
    /\ ret' = Err(RecursiveLazyValueEvaluation)
    /\ lazy' = lazy
    /\ ProducerRunning(stack', Top.t)

\* C28 as stated: whenever an evaluate call on a thunk returns, the thunk is
\* Computed or Errored.
C28_ReturnsSettled ==
    [][Returns => lazy'[Top.t].tag \in {"Computed", "Errored"}]_vars

\* C28: when an evaluate call on a thunk returns, the thunk is Computed or Errored,
\* unless the call found the thunk Pending and returned RecursiveLazyValueEvaluation
\* while the producer is still on the stack; a thunk is Pending exactly while its
\* producer runs on the stack; a value appears in the cell only in the step that
\* returns the producer's whole result.
C28_ReturnsSettledOrReentrant ==
    [][/\ Returns => (lazy'[Top.t].tag \in {"Computed", "Errored"} \/ ReentrantReturn)
       /\ \A t \in Thunks : lazy'[t].tag = "Pending" <=> ProducerRunning(stack', t)
       /\ \A t \in Thunks :
             (lazy'[t].tag = "Computed" /\ lazy[t].tag # "Computed") =>
                 /\ stack # <<>> /\ Top.t = t /\ Top.pc = "store"
                 /\ Top.res = Ok(lazy'[t].val)
                 /\ ret' = Top.res
                 /\ Returns
      ]_vars

\* a producer got RecursiveLazyValueEvaluation back from its own thunk, which is
\* still Pending, and another thunk holds a value its producer returned
C28_Witness ==
    /\ stack # <<>>
    /\ Top.pc = "wait"
    /\ Top.f = VarExpr(Top.t)
    /\ lazy[Top.t].tag = "Pending"
    /\ ret = Err(RecursiveLazyValueEvaluation)
    /\ returned[Top.t] = {Err(RecursiveLazyValueEvaluation)}
    /\ \E u \in Thunks : lazy[u].tag = "Computed" /\ returned[u] = {Ok(lazy[u].val)}

(***************************************************************************)
(* Manifestation: what quote_keys changes in YAML.                         *)
(***************************************************************************)
\* the strings that are array items or field values of a value, at any depth
RECURSIVE StrScalars(_)
StrScalars(val) ==
    LET inner == IF val.t = "arr"
                 THEN {val.items[i] : i \in 1 .. Len(val.items)}
                 ELSE IF val.t = "obj"
                      THEN {Fields(val)[i].val : i \in 1 .. Len(Fields(val))}
                      ELSE {}
    IN {v \in inner : v.t = "str"} \cup UNION {StrScalars(v) : v \in inner}
\* no object with a field is written, so no key is
RECURSIVE KeyFree(_)
KeyFree(val) ==
    /\ val.t = "obj" => IsEmptyObj(val)
    /\ val.t = "arr" => \A i \in 1 .. Len(val.items) : KeyFree(val.items[i])
\* the options of the last operation, and the same with quote_keys the other way
YamlOptionsUsed == ManifestYamlOptions(Repeat(2), Repeat(2), mop.quote_keys)
YamlOptionsOther == ManifestYamlOptions(Repeat(2), Repeat(2), ~mop.quote_keys)

\* C29: in YAML, quote_keys changes only how keys are written: every string that
\* is an array item or a field value is written the same with quote_keys true and
\* false, and so is the whole text of a value in which no key is written.
C29_QuoteKeysOnlyKeys ==
    (mop.op = "yaml_ex" /\ mout.kind = "ok") =>
        /\ \A str \in StrScalars(mval) :
              \A pad \in {<<>>, Repeat(2)} :
                  TextOf(manifest_yaml_ex_buf(str, pad, YamlOptionsUsed))
                      = TextOf(manifest_yaml_ex_buf(str, pad, YamlOptionsOther))
        /\ KeyFree(mval) => mout.text = TextOf(manifest_yaml_ex(mval, YamlOptionsOther))

(***************************************************************************)
(* The parser's events and Sink::finish, which replays them into the tree  *)
(* builder. None of an Option<usize> is 0; positions count from 1.         *)
(***************************************************************************)
\* operations of the parser on its markers and tokens
MaxSteps == 5
\* whitespace lexemes among the lexemes of a text
MaxTrivia == 1

Event(e, kind, forward_parent, wrapper) ==
    [e |-> e, kind |-> kind, forward_parent |-> forward_parent, wrapper |-> wrapper]
EventPending == Event("Pending", "", 0, 0)
EventStart(kind, forward_parent) == Event("Start", kind, forward_parent, 0)
EventToken(kind) == Event("Token", kind, 0, 0)
EventVirtualToken(kind) == Event("VirtualToken", kind, 0, 0)
EventFinish(wrapper) == Event("Finish", "", 0, wrapper)
EventError == Event("Error", "", 0, 0)
EventNoop == Event("Noop", "", 0, 0)

\* the parser while it writes events: the markers still open, innermost last, and
\* the marker completed last, which may be preceded or wrapped once
NoMarker == [start |-> 0, finish |-> 0]
Parser(events, open, done) == [events |-> events, open |-> open, done |-> done]
NewParser == Parser(<<>>, <<>>, NoMarker)

\* what one operation of the parser makes of p: a marker is started as Pending; it
\* is completed (Pending becomes Start, Finish is pushed) or, when it precedes
\* nothing, dropped (Noop); a token,
\* a virtual token or an error is pushed; a completed marker is preceded (a Pending
\* parent at the end, its offset in forward_parent) or wrapped (Start and Finish of
\* the wrapper at the end, their offsets in forward_parent and wrapper)
ParserSteps(p) ==
    LET n == Len(p.events)
        top == p.open[Len(p.open)]
        rest == SubSeq(p.open, 1, Len(p.open) - 1)
        precedes == \E i \in 1 .. n : /\ p.events[i].forward_parent # 0
                                      /\ i + p.events[i].forward_parent = top
    IN {Parser(Append(p.events, EventPending), Append(p.open, n + 1), p.done),
        Parser(Append(p.events, EventToken("IDENT")), p.open, p.done),
        Parser(Append(p.events, EventVirtualToken("VIRTUAL")), p.open, p.done),
        Parser(Append(p.events, EventError), p.open, p.done)}
       \cup (IF p.open = <<>> THEN {}
             ELSE {Parser(Append([p.events EXCEPT ![top] = EventStart("NODE", 0)],
                                 EventFinish(0)),
                          rest, [start |-> top, finish |-> n + 1])}
                  \cup (IF precedes THEN {}
                        ELSE {Parser([p.events EXCEPT ![top] = EventNoop], rest, p.done)}))
       \cup (IF p.done = NoMarker THEN {}
             ELSE {Parser(Append([p.events EXCEPT ![p.done.start].forward_parent =
                                                      n + 1 - p.done.start],
                                 EventPending),
                          Append(p.open, n + 1), NoMarker),
                   Parser([p.events EXCEPT ![p.done.start].forward_parent =
                                               n + 1 - p.done.start,
                                           ![p.done.finish].wrapper = n + 2 - p.done.finish]
                              \o <<EventStart("WRAPPER", 0), EventFinish(0)>>,
                          p.open, [start |-> n + 1, finish |-> n + 2])})

OneMoreStep(parsers) == parsers \cup UNION {ParserSteps(p) : p \in parsers}
RECURSIVE ParsersAfter(_)
ParsersAfter(n) == IF n = 0 THEN {NewParser} ELSE OneMoreStep(ParsersAfter(n - 1))

\* the event lists of finished parses of at most n operations: every marker is
\* completed or dropped
EventLists(n) == {p.events : p \in {q \in ParsersAfter(n) : q.open = <<>>}}

Lexeme(kind) == [kind |-> kind]
\* Trivia::can_cast
IsTrivia(kind) == kind = "WHITESPACE"
CountOf(q, Test(_)) == Cardinality({i \in 1 .. Len(q) : Test(q[i])})
\* the lexemes of a text whose tokens the parser ate one Token event each
LexemesFor(events) ==
    LET tokens == CountOf(events, LAMBDA ev : ev.e = "Token")
    IN {l \in SeqsUpTo({Lexeme("WHITESPACE"), Lexeme("IDENT")}, tokens + MaxTrivia) :
           CountOf(l, LAMBDA x : ~IsTrivia(x.kind)) = tokens}

\* a call on the builder, with the event and the lexeme it comes from and the
\* depth after it
BuilderCall(c, kind, ev, lex, depth) ==
    [c |-> c, kind |-> kind, ev |-> ev, lex |-> lex, depth |-> depth]

\* Sink::new; offset counts the lexemes eaten
Sink(events, lexemes) ==
    [events |-> events, lexemes |-> lexemes, offset |-> 0, errors |-> 0,
     depth |-> 0, eat_start_whitespace |-> FALSE, calls |-> <<>>, panic |-> ""]

Panicked(sink, why) == [sink EXCEPT !.panic = why]

\* a variant that reads the event and leaves it in the list
ReplaceKeep(events, idx) == events

\* mem::replace(&mut self.events[idx], Event::Noop)
Replace(events, idx) == [events EXCEPT ![idx] = EventNoop]

\* Sink::token: the lexeme at offset goes to the builder
token(sink, kind, ev) ==
    IF sink.offset >= Len(sink.lexemes)
    THEN Panicked(sink, "index out of bounds")
    ELSE [sink EXCEPT !.calls = Append(@, BuilderCall("token", kind, ev, sink.offset + 1,
                                                       sink.depth)),
                      !.offset = @ + 1]

\* Sink::virtual_token
virtual_token(sink, kind, ev) ==
    [sink EXCEPT !.calls = Append(@, BuilderCall("token", kind, ev, 0, sink.depth))]

\* Sink::skip_whitespace
RECURSIVE skip_whitespace(_, _)
skip_whitespace(sink, ev) ==
    IF sink.offset < Len(sink.lexemes) /\ IsTrivia(sink.lexemes[sink.offset + 1].kind)
    THEN skip_whitespace(token(sink, sink.lexemes[sink.offset + 1].kind, ev), ev)
    ELSE sink

\* Event::Start: the walk along forward_parent; kinds holds the events met
RECURSIVE WalkForwardParents(_, _, _, _)
WalkForwardParents(sink, idx, forward_parent, kinds) ==
    IF forward_parent = 0
    THEN [sink |-> sink, kinds |-> kinds]
    ELSE LET at == idx + forward_parent
         IN IF at > Len(sink.events)
            THEN [sink |-> Panicked(sink, "index out of bounds"), kinds |-> kinds]
            ELSE IF sink.events[at].e # "Start"
                 THEN [sink |-> Panicked([sink EXCEPT !.events = Replace(@, at)],
                                         "unreachable"),
                       kinds |-> kinds]
                 ELSE WalkForwardParents([sink EXCEPT !.events = Replace(@, at)], at,
                                         sink.events[at].forward_parent,
                                         Append(kinds, [kind |-> sink.events[at].kind,
                                                        ev |-> at]))

\* Event::Start: for kind in kinds.into_iter().rev()
RECURSIVE StartNodes(_, _, _, _)
StartNodes(sink, kinds, k, ev) ==
    IF k = 0 THEN sink
    ELSE LET opened == [sink EXCEPT !.depth = @ + 1,
                                    !.calls = Append(@, BuilderCall("start_node",
                                                                    kinds[k].kind,
                                                                    kinds[k].ev, 0,
                                                                    sink.depth + 1))]
         IN StartNodes(IF opened.depth = 1 THEN skip_whitespace(opened, ev) ELSE opened,
                       kinds, k - 1, ev)

\* if depth == 1 { skip_whitespace }; finish_node; depth -= 1
FinishNode(sink, ev, at) ==
    LET skipped == IF sink.depth = 1 THEN skip_whitespace(sink, ev) ELSE sink
    IN [skipped EXCEPT !.depth = @ - 1,
                       !.calls = Append(@, BuilderCall("finish_node", "", at, 0,
                                                       sink.depth - 1))]

\* Event::Finish: the walk along wrapper
RECURSIVE WalkWrappers(_, _, _, _)
WalkWrappers(sink, idx, wrapper, ev) ==
    IF wrapper = 0
    THEN sink
    ELSE LET at == idx + wrapper
         IN IF at > Len(sink.events)
            THEN Panicked(sink, "index out of bounds")
            ELSE IF sink.events[at].e # "Finish"
                 THEN Panicked([sink EXCEPT !.events = Replace(@, at)], "unreachable")
                 ELSE WalkWrappers(FinishNode([sink EXCEPT !.events = Replace(@, at)],
                                              ev, at),
                                   at, sink.events[at].wrapper, ev)

\* one turn of `for idx in 0..self.events.len()`
FinishEvent(sink, idx) ==
    LET event == sink.events[idx]
        taken == [sink EXCEPT !.events = Replace(@, idx)]
    IN CASE event.e = "Start" ->
               LET skipped == IF taken.depth # 0 THEN skip_whitespace(taken, idx) ELSE taken
                   walk == WalkForwardParents(skipped, idx, event.forward_parent,
                                              <<[kind |-> event.kind, ev |-> idx]>>)
               IN IF walk.sink.panic # ""
                  THEN walk.sink
                  ELSE [StartNodes(walk.sink, walk.kinds, Len(walk.kinds), idx)
                           EXCEPT !.eat_start_whitespace = FALSE]
         [] event.e = "Token" ->
               LET skipped == IF taken.eat_start_whitespace
                              THEN skip_whitespace(taken, idx) ELSE taken
               IN [token(skipped, event.kind, idx) EXCEPT !.eat_start_whitespace = TRUE]
         [] event.e = "VirtualToken" ->
               LET skipped == IF taken.eat_start_whitespace
                              THEN skip_whitespace(taken, idx) ELSE taken
               IN [virtual_token(skipped, event.kind, idx)
                      EXCEPT !.eat_start_whitespace = FALSE]
         [] event.e = "Finish" ->
               [WalkWrappers(FinishNode(taken, idx, idx), idx, event.wrapper, idx)
                   EXCEPT !.eat_start_whitespace = TRUE]
         [] event.e = "Pending" -> Panicked(taken, "pending event")
         [] event.e = "Error" -> [taken EXCEPT !.errors = @ + 1]
         [] OTHER -> taken

RECURSIVE FinishLoop(_, _)
FinishLoop(sink, idx) ==
    IF idx > Len(sink.events) \/ sink.panic # ""
    THEN sink
    ELSE FinishLoop(FinishEvent(sink, idx), idx + 1)

\* Sink::finish
finish(sink) == FinishLoop(sink, 1)

\* a finished parse goes through Sink::new and Sink::finish
SinkFinish ==
    /\ valPhase = "idle"
    /\ \E events \in EventLists(MaxSteps) :
          \E lexemes \in LexemesFor(events) :
              /\ valIn' = [op |-> "finish", events |-> events, lexemes |-> lexemes]
              /\ valOut' = finish(Sink(events, lexemes))
    /\ valPhase' = "done"
    /\ UNCHANGED ValOthers

\* the Parse is handed back
SinkReturn ==
    /\ valPhase = "done"
    /\ valPhase' = "idle"
    /\ valIn' = NoOp
    /\ valOut' = NoVal
    /\ UNCHANGED ValOthers

SinkNext ==
    \/ SinkFinish
    \/ SinkReturn

(***************************************************************************)
(* Properties of Sink::finish.                                             *)
(***************************************************************************)
\* the calls of one kind that come from the event at idx
CallsFrom(c, idx) ==
    {k \in 1 .. Len(valOut.calls) : valOut.calls[k].c = c /\ valOut.calls[k].ev = idx}
\* the events of one kind in the list that was finished
EventsOf(e) == {idx \in 1 .. Len(valIn.events) : valIn.events[idx].e = e}
\* the start_node calls in their order, and the place of the one from the event at idx
Opened == SelectSeq(valOut.calls, LAMBDA call : call.c = "start_node")
PlaceOpened(idx) == CHOOSE k \in 1 .. Len(Opened) : Opened[k].ev = idx
\* the lexemes the builder got, in the order of the calls
Eaten ==
    LET real == SelectSeq(valOut.calls, LAMBDA call : call.c = "token" /\ call.lex # 0)
    IN [k \in 1 .. Len(real) |-> real[k].lex]

\* C30: Sink::finish ends without a panic; every Start event gives exactly one
\* start_node with its kind and every Finish event exactly one finish_node, and no
\* other call opens or closes a node; a forward parent is opened right before the
\* node that names it; the depth is never below zero and is zero at the end; the
\* lexemes are eaten in order from the first, each once at most.
C30_EveryEventOnce ==
    ValDone("finish") =>
        /\ valOut.panic = ""
        /\ \A idx \in EventsOf("Start") :
              /\ Cardinality(CallsFrom("start_node", idx)) = 1
              /\ Opened[PlaceOpened(idx)].kind = valIn.events[idx].kind
              /\ valIn.events[idx].forward_parent # 0 =>
                    PlaceOpened(idx + valIn.events[idx].forward_parent)
                        = PlaceOpened(idx) - 1
        /\ \A idx \in EventsOf("Finish") : Cardinality(CallsFrom("finish_node", idx)) = 1
        /\ Len(Opened) = Cardinality(EventsOf("Start"))
        /\ Cardinality({k \in 1 .. Len(valOut.calls) : valOut.calls[k].c = "finish_node"})
              = Cardinality(EventsOf("Finish"))
        /\ \A k \in 1 .. Len(valOut.calls) : valOut.calls[k].depth >= 0
        /\ valOut.depth = 0
        /\ \A k \in 1 .. Len(Eaten) : Eaten[k] = k
        /\ Len(Eaten) = valOut.offset
        /\ valOut.offset <= Len(valIn.lexemes)
        /\ \A idx \in 1 .. Len(valOut.events) : valOut.events[idx] = EventNoop

\* a wrapped node in a preceded one: two chained parents are opened before the
\* node, the wrapper is closed through the Finish of the node, and a lexeme is eaten
C30_Witness ==
    /\ ValDone("finish")
    /\ \E idx \in EventsOf("Start") :
          LET parent == idx + valIn.events[idx].forward_parent
          IN /\ valIn.events[idx].forward_parent # 0
             /\ valIn.events[parent].forward_parent # 0
             /\ PlaceOpened(idx) = 3
    /\ \E idx \in EventsOf("Finish") : valIn.events[idx].wrapper # 0
    /\ valOut.offset > 0
    /\ valOut.depth = 0

(***************************************************************************)
(* The specifications: one per component, all from the same first state.   *)
(***************************************************************************)
Init ==
    /\ ThunkStart
    /\ InternStart
    /\ CallStart
    /\ PendStart
    /\ ApplyStart
    /\ ValStart
    /\ ManStart

SpecThunk == Init /\ [][ThunkNext]_vars

SpecIntern == Init /\ [][InternNext]_vars

SpecCall == Init /\ [][CallNext]_vars

SpecPending == Init /\ [][PendNext]_vars

SpecApply == Init /\ [][ApplyNext]_vars

SpecValue == Init /\ [][ValNext]_vars

SpecEval == Init /\ [][EvalNext]_vars

SpecSink == Init /\ [][SinkNext]_vars

SpecManifest == Init /\ [][ManNext]_vars

====
